---- MODULE Spec2Model ----
(***************************************************************************)
(* Resource query and execution layer of c7n (c7n/query.py): the resource  *)
(* manager's resources() call with its run-scoped cache, and the           *)
(* resource-limit circuit breaker check_resource_limit.                    *)
(***************************************************************************)
EXTENDS Integers, Sequences, FiniteSets, TLC

(***************************************************************************)
(* Python values.  An optional number (None or a number) is the empty set  *)
(* or a singleton.                                                         *)
(***************************************************************************)
None == {}

Some(v) == {v}

Val(o) == CHOOSE v \in o : TRUE

(***************************************************************************)
(* Natural numbers wider than 32 bits (a significand has 53): a sequence   *)
(* of limbs in base 2^15, least significant first, no leading zero limb    *)
(* (<<>> is 0).                                                            *)
(***************************************************************************)
LimbBits == 15

LimbBase == 2 ^ LimbBits

RECURSIVE BigNorm(_)
BigNorm(a) ==
    IF a # <<>> /\ a[Len(a)] = 0 THEN BigNorm(SubSeq(a, 1, Len(a) - 1)) ELSE a

RECURSIVE BigFromInt(_)
BigFromInt(n) ==
    IF n = 0 THEN <<>> ELSE <<n % LimbBase>> \o BigFromInt(n \div LimbBase)

RECURSIVE BigToInt(_)
BigToInt(a) ==
    IF a = <<>> THEN 0 ELSE a[1] + LimbBase * BigToInt(Tail(a))

RECURSIVE BigMulSmall(_, _, _)
\* a * k + carry, for 0 <= k < 2^15
BigMulSmall(a, k, carry) ==
    IF a = <<>> THEN BigFromInt(carry)
    ELSE LET v == a[1] * k + carry
         IN  <<v % LimbBase>> \o BigMulSmall(Tail(a), k, v \div LimbBase)

RECURSIVE BigDivSmall(_, _)
\* <<a \div d, a % d>>, for 1 <= d < 2^15
BigDivSmall(a, d) ==
    IF a = <<>> THEN <<(<<>>), 0>>
    ELSE LET hi == BigDivSmall(Tail(a), d)
             v  == hi[2] * LimbBase + a[1]
         IN  <<BigNorm(<<v \div d>> \o hi[1]), v % d>>

RECURSIVE BigAddOne(_)
BigAddOne(a) ==
    IF a = <<>> THEN <<1>>
    ELSE IF a[1] + 1 < LimbBase THEN <<a[1] + 1>> \o Tail(a)
    ELSE <<0>> \o BigAddOne(Tail(a))

\* a * 2^s
BigShiftLeft(a, s) ==
    IF a = <<>> THEN <<>>
    ELSE [i \in 1..(s \div LimbBits) |-> 0] \o BigMulSmall(a, 2 ^ (s % LimbBits), 0)

\* a \div 2^s
BigShiftRight(a, s) ==
    LET whole == s \div LimbBits
    IN  IF whole >= Len(a) THEN <<>>
        ELSE BigDivSmall(SubSeq(a, whole + 1, Len(a)), 2 ^ (s % LimbBits))[1]

RECURSIVE IntBitLen(_)
IntBitLen(n) == IF n = 0 THEN 0 ELSE 1 + IntBitLen(n \div 2)

\* the number of binary digits of a
BigBitLen(a) ==
    IF a = <<>> THEN 0 ELSE LimbBits * (Len(a) - 1) + IntBitLen(a[Len(a)])

BigIsOdd(a) == a # <<>> /\ a[1] % 2 = 1

(***************************************************************************)
(* IEEE-754 binary64 arithmetic on the non-negative values the breaker     *)
(* computes.  A float is [q, s], standing for q * 2^(-s) with q a natural  *)
(* of at most 53 binary digits; zero has q = 0.  Every operation rounds to *)
(* nearest, ties to even, as the hardware does.                            *)
(***************************************************************************)
MantissaBits == 53

FloatZero == [q |-> <<>>, s |-> 0]

\* q * 2^(-s), q of exactly 53 digits, rounded up by one unit when roundUp
FloatRound(q, s, roundUp) ==
    IF ~roundUp THEN [q |-> q, s |-> s]
    ELSE LET r == BigAddOne(q)
         IN  IF BigBitLen(r) > MantissaBits
             THEN [q |-> BigShiftRight(r, 1), s |-> s - 1]
             ELSE [q |-> r, s |-> s]

\* float(n) / float(d) for integers 0 <= n, 1 <= d < 2^15: the quotient
\* n / d correctly rounded to 53 significant digits
FloatDiv(n, d) ==
    IF n = 0 THEN FloatZero
    ELSE LET wide  == MantissaBits + IntBitLen(d)
             full  == BigDivSmall(BigShiftLeft(BigFromInt(n), wide), d)[1]
             s     == wide - (BigBitLen(full) - MantissaBits)
             qr    == BigDivSmall(BigShiftLeft(BigFromInt(n), s), d)
             up    == 2 * qr[2] > d \/ (2 * qr[2] = d /\ BigIsOdd(qr[1]))
         IN  FloatRound(qr[1], s, up)

\* float(k) * x for an integer 0 <= k < 2^15: the exact product k * x
\* rounded to 53 significant digits
FloatMulInt(k, x) ==
    IF k = 0 \/ x.q = <<>> THEN FloatZero
    ELSE LET prod == BigMulSmall(x.q, k, 0)
             drop == BigBitLen(prod) - MantissaBits
         IN  IF drop <= 0 THEN [q |-> prod, s |-> x.s]
             ELSE LET qr   == BigDivSmall(prod, 2 ^ drop)
                      half == 2 ^ (drop - 1)
                      up   == qr[2] > half \/ (qr[2] = half /\ BigIsOdd(qr[1]))
                  IN  FloatRound(qr[1], x.s - drop, up)

\* the integer part of x (x < 2^31)
FloatFloor(x) ==
    IF x.s <= 0 THEN BigToInt(BigShiftLeft(x.q, -x.s))
    ELSE BigToInt(BigShiftRight(x.q, x.s))

\* x < n for a float x >= 0 and an integer n (Python compares them exactly)
FloatLessInt(x, n) == FloatFloor(x) < n

(***************************************************************************)
(* The resource-limit circuit breaker.                                     *)
(*                                                                         *)
(* A policy p carries max_resources and max_resources_percent, each None   *)
(* or a number.  The outcome of a call is either the return value True or  *)
(* the exception ResourceLimitExceeded with its four arguments.            *)
(***************************************************************************)
Returned == [raised |-> FALSE]

ResourceLimitExceeded(kind, limit, selection_count, population_count) ==
    [raised |-> TRUE, kind |-> kind, limit |-> limit,
     selection_count |-> selection_count, population_count |-> population_count]

\* Python truth of an optional number: None and 0 are false
Truthy(o) == o # None /\ Val(o) # 0

\* population_count * (percent / 100.0) < selection_count, in floats
PercentExceeded(percent, selection_count, population_count) ==
    FloatLessInt(FloatMulInt(population_count, FloatDiv(percent, 100)), selection_count)

\* the absolute limit compared with >= instead of >
check_resource_limit_inclusive(p, selection_count, population_count) ==
    IF p.max_resources # None /\ selection_count >= Val(p.max_resources)
    THEN ResourceLimitExceeded("max-resources", Val(p.max_resources),
                               selection_count, population_count)
    ELSE IF Truthy(p.max_resources_percent)
              /\ PercentExceeded(Val(p.max_resources_percent),
                                 selection_count, population_count)
    THEN ResourceLimitExceeded("max-percent", Val(p.max_resources_percent),
                               selection_count, population_count)
    ELSE Returned

\* no isinstance test: an unset max_resources compares below every count
check_resource_limit_unguarded(p, selection_count, population_count) ==
    IF p.max_resources = None \/ selection_count > Val(p.max_resources)
    THEN ResourceLimitExceeded("max-resources", p.max_resources,
                               selection_count, population_count)
    ELSE IF Truthy(p.max_resources_percent)
              /\ PercentExceeded(Val(p.max_resources_percent),
                                 selection_count, population_count)
    THEN ResourceLimitExceeded("max-percent", Val(p.max_resources_percent),
                               selection_count, population_count)
    ELSE Returned

check_resource_limit(p, selection_count, population_count) ==
    IF p.max_resources # None /\ selection_count > Val(p.max_resources)
    THEN ResourceLimitExceeded("max-resources", Val(p.max_resources),
                               selection_count, population_count)
    ELSE IF Truthy(p.max_resources_percent)
              /\ PercentExceeded(Val(p.max_resources_percent),
                                 selection_count, population_count)
    THEN ResourceLimitExceeded("max-percent", Val(p.max_resources_percent),
                               selection_count, population_count)
    ELSE Returned

(***************************************************************************)
(* Bounds of the model.                                                    *)
(***************************************************************************)
\* resource ids the provider can hold
MaxIds == 2

\* resources() calls of one run
MaxCalls == 2

\* largest selection and population count given to the breaker on its own
MaxPopulation == 100

Ids == 1..MaxIds

\* callers of resources(): threads of the run
Procs == {1, 2}

\* max_resources_percent values: round ones and ones whose hundredth is not
\* a binary fraction
Percents == {0, 1, 10, 29, 33, 50, 58, 70, 100}

\* max_resources values (the policy schema asks for an integer >= 1)
Limits == {1, 10}

(***************************************************************************)
(* Resource records, query parameters, manager data.                       *)
(*                                                                         *)
(* A record is [id, detail]: detail is TRUE once the detail call of the    *)
(* augmentation has been merged onto it.  Query parameters are a set of    *)
(* <<name, value>> pairs; a query argument is None or Some(parameters).    *)
(* Manager data is [filters]: the ids the data's filters keep.             *)
(***************************************************************************)
Raw(i) == [id |-> i, detail |-> FALSE]

EmptyParams == {}

NamedParams == {<<"Filters", "f1">>}

NoFilters == [filters |-> Ids]

OneFilter == [filters |-> {1}]

RECURSIVE Enumerations(_, _)
\* what an enumeration can answer: the raw records of any of the ids up to
\* n that are in ids, in id order
Enumerations(ids, n) ==
    IF n = 0 THEN {<<>>}
    ELSE LET shorter == Enumerations(ids, n - 1)
         IN  shorter \cup (IF n \in ids THEN {Append(s, Raw(n)) : s \in shorter} ELSE {})

\* the results of a call: still running, returned a value, raised
Running == [status |-> "running"]

Return(v) == [status |-> "returned", value |-> v]

Raise(e) == [status |-> "raised", exc |-> e]

ClientError == [raised |-> TRUE, kind |-> "ClientError"]

\* assert len(identities) == 1, "Scalar server side filter"
AssertionError == [raised |-> TRUE, kind |-> "AssertionError"]

\* response[detail_path] on a response without it
KeyError == [raised |-> TRUE, kind |-> "KeyError"]

\* "for r in subset" over None
TypeError == [raised |-> TRUE, kind |-> "TypeError"]

VARIABLES
    universe,           \* what the run's callers and provider draw from
    policy,             \* ctx.policy: data, max_resources, max_resources_percent
    cache_enabled,      \* what _cache.load() answers
    cache,              \* the run-scoped cache: key -> [value, writer]
    ncalls,             \* resources() calls begun
    pc,                 \* each caller's place in resources()
    self,               \* the manager: account_id, region, resource, data
    query,              \* the local query
    cache_key,          \* the local cache_key
    resources,          \* the local resources: None or Some(list)
    resource_count,     \* the local resource_count
    result,             \* how the call ended
    trace,              \* the collaborators the call has used, in order
    provider_calls,     \* provider API calls the call has issued
    called,             \* the call's manager and query argument, as begun
    served,             \* on a cache hit, the call that wrote the entry
    saves,              \* every save so far: the caller and what it saved
    get_args,           \* get_resources(ids, cache, augment): its arguments
    fault,              \* what a collaborator raised inside get_resources
    resource_type,      \* the manager's descriptor (m)
    identities,         \* ResourceQuery.get: the identities asked for
    caller_params,      \* filter(**params): the parameters as the caller gave them
    parent_ids,         \* what the parent manager's resources() holds, in order
    rq_op,              \* the query operation called
    rq_pc,              \* its place in the operation
    params,             \* the local params
    client_filter,      \* the local client_filter
    rq_resources,       \* ResourceQuery.get: the local resources
    results,            \* ChildResourceQuery.filter: the local results
    parent_index,       \* the parent the fan-out loop is at
    enum_calls,         \* every enumeration call issued: its params, its answer
    rq_result,          \* how the query operation ended
    selection_count,    \* breaker on its own: its arguments and outcome
    population_count,
    limit_result,
    histories,          \* the config service: each identity's history
    cfg_op,             \* the ConfigSource operation called
    cfg_pc,             \* its place in the operation
    ids_arg,            \* ConfigSource.get_resources(ids): its argument
    resource_ids,       \* ConfigSource.resources: the local resource_ids
    chunk_index,        \* the chunk the loop is at
    future,             \* the future submitted for that chunk
    in_flight,          \* the chunks whose lookup a worker is running
    cfg_results,        \* ConfigSource.resources: the local results
    logged,             \* errors written to manager.log
    cfg_result,         \* how the ConfigSource operation ended
    aug_op,             \* the augmentation called
    aug_pc,             \* its place in the augmentation
    aug_input,          \* augment(resources): its argument
    aug_faults,         \* what the provider does with the call for each item
    param_key,          \* detail_spec's param_key
    aug_index,          \* the item the loop is at
    aug_results,        \* the local results
    aug_result,         \* how the augmentation ended
    ResourceARNList,    \* universal_retry: the ARNs the next call sends
    idx,                \* the attempt the loop is at, from 0
    retry_pc,           \* its place in universal_retry
    method_calls,       \* every method call made: its ARNs, its response
    sleeps,             \* every time.sleep made: its delay before jitter
    retry_result,       \* how universal_retry ended
    pool_op,            \* the pooled action called
    pool_pc,            \* its place in process()
    pool_input,         \* process(resources): its argument
    delete_faults,      \* what the provider does with each snapshot's deletion
    futures,            \* the local futures
    observed,           \* the futures as_completed has yielded
    error,              \* RDSClusterSnapshotDelete.process: the local error
    pool_logged,        \* errors written to the log
    deleted,            \* the snapshots the provider has deleted
    pool_result,        \* how process() ended
    rename_pc,          \* the place in process_rename
    resource_set,       \* process_rename(tag_value, resource_set): the resources
    held,               \* the tags the provider holds for each resource
    tag_calls,          \* every create_tags / delete_tags call made
    filter_pc,          \* the place in process(), around filter_resources
    filter_class,       \* RenameTag or NormalizeTag
    filter_input,       \* the resources as process() received them
    tag_resources,             \* the list filter_resources iterates and pops from
    res,                \* filter_resources: res, the position counted from 0
    resource_sets,      \* create_set: the resources by tag value
    filter_error,       \* the exception create_set raised, if any
    mail_pc,            \* the place in MailerAzureQueueProcessor.run
    queue,              \* the storage queue: each message, present or not, and its dequeue count
    queue_messages,     \* run: the batch fetched last
    message_index,      \* run: the place in the batch
    decisions,          \* every message processed: its dequeue count, the result, deleted or not
    send_pc,            \* the place in custodian_azure_send_override
    send_retries,       \* retries
    send_response,      \* response, once there is one
    send_received,      \* every response orig_send gave, in order
    send_sleeps,        \* every time.sleep made, in order
    send_result         \* what the override returned or raised

res_vars == <<universe, policy, cache_enabled, cache, ncalls, pc, self, query,
              cache_key, resources, resource_count, result, trace,
              provider_calls, called, served, saves>>

limit_vars == <<selection_count, population_count, limit_result>>

get_vars == <<get_args, fault>>

query_vars == <<resource_type, identities, caller_params, parent_ids, rq_op, rq_pc,
                params, client_filter, rq_resources, results, parent_index,
                enum_calls, rq_result>>

config_vars == <<histories, cfg_op, cfg_pc, ids_arg, resource_ids, chunk_index,
                 future, in_flight, cfg_results, logged, cfg_result>>

\* the machines beside the manager's and the query's
aug_vars == <<aug_op, aug_pc, aug_input, aug_faults, param_key, aug_index,
              aug_results, aug_result>>

retry_vars == <<ResourceARNList, idx, retry_pc, method_calls, sleeps, retry_result>>

pool_vars == <<pool_op, pool_pc, pool_input, delete_faults, futures, observed, error, pool_logged, deleted, pool_result>>

rename_vars == <<rename_pc, resource_set, held, tag_calls>>

filter_vars == <<filter_pc, filter_class, filter_input, tag_resources, res, resource_sets, filter_error>>

mail_vars == <<mail_pc, queue, queue_messages, message_index, decisions>>

send_vars == <<send_pc, send_retries, send_response, send_received, send_sleeps, send_result>>

more_vars == <<config_vars, aug_vars, retry_vars, pool_vars, rename_vars, filter_vars, mail_vars, send_vars>>

\* what resources() leaves alone
aside_vars == <<limit_vars, get_vars, query_vars, more_vars>>

vars == <<res_vars, aside_vars>>

(***************************************************************************)
(* The cache collaborator: get answers None for a key never saved.         *)
(***************************************************************************)
EmptyCache == [k \in {} |-> None]

CacheGet(c, key) == IF key \in DOMAIN c THEN Some(c[key].value) ELSE None

CacheSave(c, key, value, writer) ==
    [k \in DOMAIN c \cup {key} |->
        IF k = key THEN [value |-> value, writer |-> writer] ELSE c[k]]

(***************************************************************************)
(* QueryResourceManager                                                    *)
(***************************************************************************)
\* the key without the region
get_cache_key_no_region(m, q) ==
    [account |-> m.account_id, region |-> "", resource |-> m.resource, q |-> q]

get_cache_key(m, q) ==
    [account |-> m.account_id, region |-> m.region, resource |-> m.resource, q |-> q]

\* the filters of the manager's data applied to a list
filter_resources(m, rs) == SelectSeq(rs, LAMBDA r : r.id \in m.data.filters)

\* the augmentation returns once the first record has its detail
Augmented_first(rs) == IF Len(rs) = 0 THEN TRUE ELSE rs[1].detail

\* the augmentation has merged the detail of every record
Augmented(rs) == \A i \in 1..Len(rs) : rs[i].detail

\* the first record the augmentation has not reached
NextToAugment(rs) == CHOOSE i \in 1..Len(rs) : ~rs[i].detail /\ \A j \in 1..(i - 1) : rs[j].detail

\* if self._cache.load(): resources = self._cache.get(cache_key)
cache_lookup(enabled, c, key) == IF enabled THEN CacheGet(c, key) ELSE None

\* "if not resources": an empty cached list is fetched again
after_lookup_truthy(found) ==
    IF found = None \/ Val(found) = <<>> THEN "fetch" ELSE "filter"

\* if resources is None: fetch, augment and save; else go on to filter
after_lookup(found) == IF found = None THEN "fetch" ELSE "filter"

\* if query is None: query = {}
fetch_query(q) == IF q = None THEN Some(EmptyParams) ELSE q

\* the count taken after the filtering
count_after_filter(m, rs) ==
    [resource_count |-> Len(filter_resources(m, rs)), resources |-> filter_resources(m, rs)]

\* resource_count = len(resources); resources = self.filter_resources(resources)
count_and_filter(m, rs) ==
    [resource_count |-> Len(rs), resources |-> filter_resources(m, rs)]

\* every manager taken for the policy's own
TopLevel_always(m, p) == TRUE

\* self.data == self.ctx.policy.data
TopLevel(m, p) == m.data = p.data

\* if self.data == self.ctx.policy.data: self.check_resource_limit(...)
limit_outcome(m, p, selection, count) ==
    IF TopLevel(m, p)
    THEN check_resource_limit(p, Len(selection), count)
    ELSE Returned

\* the four components of a call: its manager's account, region and kind,
\* and the query it was given
Components(m, q) ==
    [account |-> m.account_id, region |-> m.region, resource |-> m.resource, q |-> q]

Managers ==
    [account_id : universe.accounts, region : universe.regions,
     resource : universe.resources, data : universe.datas]

IdleManager == [account_id |-> "", region |-> "", resource |-> "", data |-> NoFilters]

IdleKey == get_cache_key(IdleManager, None)

\* def resources(self, query=None): cache_key = ...; resources = None
Call(c) ==
    /\ pc[c] \in {"idle", "done"}
    /\ ncalls < universe.max_calls
    /\ \E m \in Managers, q \in universe.queries :
          /\ self' = [self EXCEPT ![c] = m]
          /\ query' = [query EXCEPT ![c] = q]
          /\ cache_key' = [cache_key EXCEPT ![c] = get_cache_key(m, q)]
          /\ called' = [called EXCEPT ![c] = Components(m, q)]
    /\ ncalls' = ncalls + 1
    /\ pc' = [pc EXCEPT ![c] = "lookup"]
    /\ resources' = [resources EXCEPT ![c] = None]
    /\ resource_count' = [resource_count EXCEPT ![c] = 0]
    /\ result' = [result EXCEPT ![c] = Running]
    /\ trace' = [trace EXCEPT ![c] = <<>>]
    /\ provider_calls' = [provider_calls EXCEPT ![c] = 0]
    /\ served' = [served EXCEPT ![c] = None]
    /\ UNCHANGED <<aside_vars, saves, universe, policy, cache_enabled, cache>>

\* if self._cache.load(): resources = self._cache.get(cache_key)
Lookup(c) ==
    /\ pc[c] = "lookup"
    /\ LET found == cache_lookup(cache_enabled, cache, cache_key[c])
       IN  /\ resources' = [resources EXCEPT ![c] = found]
           /\ pc' = [pc EXCEPT ![c] = after_lookup(found)]
           /\ served' = [served EXCEPT ![c] =
                            IF after_lookup(found) = "filter"
                            THEN Some(cache[cache_key[c]].writer) ELSE None]
    /\ trace' = [trace EXCEPT ![c] = IF cache_enabled THEN Append(@, "cache.get") ELSE @]
    /\ UNCHANGED <<aside_vars, saves, called, universe, policy, cache_enabled, cache, ncalls, self, query,
                   cache_key, resource_count, result, provider_calls>>

\* if query is None: query = {}; resources = self.source.resources(query)
Fetch(c) ==
    /\ pc[c] = "fetch"
    /\ query' = [query EXCEPT ![c] = fetch_query(@)]
    /\ \E rs \in Enumerations(universe.ids, MaxIds) :
          resources' = [resources EXCEPT ![c] = Some(rs)]
    /\ trace' = [trace EXCEPT ![c] = Append(@, "source.resources")]
    /\ provider_calls' = [provider_calls EXCEPT ![c] = @ + 1]
    /\ pc' = [pc EXCEPT ![c] = "augment"]
    /\ UNCHANGED <<aside_vars, saves, called, universe, policy, cache_enabled, cache, ncalls, self,
                   cache_key, resource_count, result, served>>

\* the enumeration raises
FetchFails(c) ==
    /\ pc[c] = "fetch"
    /\ query' = [query EXCEPT ![c] = fetch_query(@)]
    /\ trace' = [trace EXCEPT ![c] = Append(@, "source.resources")]
    /\ provider_calls' = [provider_calls EXCEPT ![c] = @ + 1]
    /\ result' = [result EXCEPT ![c] = Raise(ClientError)]
    /\ pc' = [pc EXCEPT ![c] = "done"]
    /\ UNCHANGED <<aside_vars, saves, called, universe, policy, cache_enabled, cache, ncalls, self,
                   cache_key, resources, resource_count, served>>

\* the augmentation's detail call for the next record, merged onto it
AugmentStep(c) ==
    /\ pc[c] = "augment"
    /\ ~Augmented(Val(resources[c]))
    /\ LET rs == Val(resources[c])
           i  == NextToAugment(rs)
       IN  resources' = [resources EXCEPT ![c] = Some([rs EXCEPT ![i].detail = TRUE])]
    /\ provider_calls' = [provider_calls EXCEPT ![c] = @ + 1]
    /\ UNCHANGED <<aside_vars, saves, called, universe, policy, cache_enabled, cache, ncalls, pc, self, query,
                   cache_key, resource_count, result, trace, served>>

\* the detail call for the next record raises: so does the augmentation
AugmentFails(c) ==
    /\ pc[c] = "augment"
    /\ ~Augmented(Val(resources[c]))
    /\ provider_calls' = [provider_calls EXCEPT ![c] = @ + 1]
    /\ trace' = [trace EXCEPT ![c] = Append(@, "augment")]
    /\ result' = [result EXCEPT ![c] = Raise(ClientError)]
    /\ pc' = [pc EXCEPT ![c] = "done"]
    /\ UNCHANGED <<aside_vars, saves, called, universe, policy, cache_enabled, cache, ncalls, self, query,
                   cache_key, resources, resource_count, served>>

\* resources = self.augment(resources) returns
AugmentReturn(c) ==
    /\ pc[c] = "augment"
    /\ Augmented(Val(resources[c]))
    /\ trace' = [trace EXCEPT ![c] = Append(@, "augment")]
    /\ pc' = [pc EXCEPT ![c] = "save"]
    /\ UNCHANGED <<aside_vars, saves, called, universe, policy, cache_enabled, cache, ncalls, self, query,
                   cache_key, resources, resource_count, result, provider_calls, served>>

\* a save that leaves an entry another caller wrote as it is
save_resources_if_absent(c, key, rs, writer) ==
    IF key \in DOMAIN c THEN c ELSE CacheSave(c, key, rs, writer)

\* self._cache.save(cache_key, resources): whatever the cache holds by now
save_resources(c, key, rs, writer) == CacheSave(c, key, rs, writer)

\* the key made anew from the query as it is by now
saved_key_fresh(key, m, q) == get_cache_key(m, q)

\* the local cache_key, made before the query is replaced
saved_key(key, m, q) == key

\* self._cache.save(cache_key, resources)
Save(c) ==
    /\ pc[c] = "save"
    /\ cache' = save_resources(cache, saved_key(cache_key[c], self[c], query[c]),
                                Val(resources[c]), called[c])
    /\ saves' = Append(saves, [caller |-> c, value |-> Val(resources[c])])
    /\ trace' = [trace EXCEPT ![c] = Append(@, "cache.save")]
    /\ pc' = [pc EXCEPT ![c] = "filter"]
    /\ UNCHANGED <<aside_vars, called, universe, policy, cache_enabled, ncalls, self, query, cache_key,
                   resources, resource_count, result, provider_calls, served>>

\* resource_count = len(resources); resources = self.filter_resources(resources)
Filter(c) ==
    /\ pc[c] = "filter"
    /\ LET done == count_and_filter(self[c], Val(resources[c]))
       IN  /\ resource_count' = [resource_count EXCEPT ![c] = done.resource_count]
           /\ resources' = [resources EXCEPT ![c] = Some(done.resources)]
    /\ trace' = [trace EXCEPT ![c] = Append(@, "filter")]
    /\ pc' = [pc EXCEPT ![c] = "check"]
    /\ UNCHANGED <<aside_vars, saves, called, universe, policy, cache_enabled, cache, ncalls, self, query,
                   cache_key, result, provider_calls, served>>

\* if self.data == self.ctx.policy.data: self.check_resource_limit(...)
\* return resources
Check(c) ==
    /\ pc[c] = "check"
    /\ LET selection == Val(resources[c])
           outcome   == limit_outcome(self[c], policy, selection, resource_count[c])
       IN  /\ result' = [result EXCEPT ![c] =
                            IF outcome.raised THEN Raise(outcome) ELSE Return(selection)]
           /\ trace' = [trace EXCEPT ![c] =
                            IF TopLevel(self[c], policy) THEN Append(@, "check_resource_limit") ELSE @]
    /\ pc' = [pc EXCEPT ![c] = "done"]
    /\ UNCHANGED <<aside_vars, saves, called, universe, policy, cache_enabled, cache, ncalls, self, query,
                   cache_key, resources, resource_count, provider_calls, served>>

Next ==
    \E c \in Procs :
        \/ Call(c)
        \/ Lookup(c)
        \/ Fetch(c)
        \/ FetchFails(c)
        \/ AugmentStep(c)
        \/ AugmentFails(c)
        \/ AugmentReturn(c)
        \/ Save(c)
        \/ Filter(c)
        \/ Check(c)

(***************************************************************************)
(* QueryResourceManager.get_resources                                      *)
(***************************************************************************)
IdleArgs == [ids |-> {}, cache |-> TRUE, augment |-> TRUE]

\* [r for r in resources if r[m.id] in id_set]
in_id_set(rs, ids) == SelectSeq(rs, LAMBDA r : r.id \in ids)

\* a cached collection is used only when some record of it matches
get_cached_resources_nonempty(enabled, c, m, ids) ==
    LET found == cache_lookup(enabled, c, get_cache_key(m, None))
    IN  IF found = None \/ in_id_set(Val(found), ids) = <<>>
        THEN None ELSE Some(in_id_set(Val(found), ids))

\* def _get_cached_resources(self, ids)
get_cached_resources(enabled, c, m, ids) ==
    LET found == cache_lookup(enabled, c, get_cache_key(m, None))
    IN  IF found = None THEN None ELSE Some(in_id_set(Val(found), ids))

\* every exception taken for a failed lookup
get_except_all(e) == Return(<<>>)

\* except ClientError as e: ... return []
get_except(e) == IF e = ClientError THEN Return(<<>>) ELSE Raise(e)

\* def get_resources(self, ids, cache=True, augment=True): if cache: ...
GetCall(c) ==
    /\ pc[c] \in {"idle", "done", "got"}
    /\ ncalls < universe.max_calls
    /\ \E m \in Managers, ids \in SUBSET universe.ids, use_cache, augment \in BOOLEAN :
          /\ self' = [self EXCEPT ![c] = m]
          /\ get_args' = [get_args EXCEPT ![c] =
                              [ids |-> ids, cache |-> use_cache, augment |-> augment]]
          /\ cache_key' = [cache_key EXCEPT ![c] = get_cache_key(m, None)]
          /\ called' = [called EXCEPT ![c] = Components(m, None)]
          /\ pc' = [pc EXCEPT ![c] = IF use_cache THEN "get_cached" ELSE "get_source"]
    /\ ncalls' = ncalls + 1
    /\ query' = [query EXCEPT ![c] = None]
    /\ resources' = [resources EXCEPT ![c] = None]
    /\ resource_count' = [resource_count EXCEPT ![c] = 0]
    /\ result' = [result EXCEPT ![c] = Running]
    /\ trace' = [trace EXCEPT ![c] = <<>>]
    /\ provider_calls' = [provider_calls EXCEPT ![c] = 0]
    /\ served' = [served EXCEPT ![c] = None]
    /\ fault' = [fault EXCEPT ![c] = None]
    /\ UNCHANGED <<limit_vars, query_vars, more_vars, saves, universe, policy, cache_enabled, cache>>

\* resources = self._get_cached_resources(ids)
\* if resources is not None: return resources
GetCached(c) ==
    /\ pc[c] = "get_cached"
    /\ LET found == get_cached_resources(cache_enabled, cache, self[c], get_args[c].ids)
       IN  /\ resources' = [resources EXCEPT ![c] = found]
           /\ result' = [result EXCEPT ![c] = IF found = None THEN @ ELSE Return(Val(found))]
           /\ pc' = [pc EXCEPT ![c] = IF found = None THEN "get_source" ELSE "got"]
           /\ served' = [served EXCEPT ![c] =
                            IF found = None THEN None ELSE Some(cache[cache_key[c]].writer)]
    /\ trace' = [trace EXCEPT ![c] = IF cache_enabled THEN Append(@, "cache.get") ELSE @]
    /\ UNCHANGED <<aside_vars, saves, called, universe, policy, cache_enabled, cache, ncalls,
                   self, query, cache_key, resource_count, provider_calls>>

\* resources = self.source.get_resources(ids); without augment: return resources
GetSource(c) ==
    /\ pc[c] = "get_source"
    /\ \E rs \in Enumerations(universe.ids, MaxIds) :
          /\ resources' = [resources EXCEPT ![c] = Some(rs)]
          /\ result' = [result EXCEPT ![c] = IF get_args[c].augment THEN @ ELSE Return(rs)]
    /\ trace' = [trace EXCEPT ![c] = Append(@, "source.get_resources")]
    /\ provider_calls' = [provider_calls EXCEPT ![c] = @ + 1]
    /\ pc' = [pc EXCEPT ![c] = IF get_args[c].augment THEN "get_augment" ELSE "got"]
    /\ UNCHANGED <<aside_vars, saves, called, universe, policy, cache_enabled, cache, ncalls,
                   self, query, cache_key, resource_count, served>>

\* self.source.get_resources(ids) raises
GetSourceFails(c) ==
    /\ pc[c] = "get_source"
    /\ \E e \in {ClientError, AssertionError} :
          /\ result' = [result EXCEPT ![c] = get_except(e)]
          /\ fault' = [fault EXCEPT ![c] = Some(e)]
    /\ trace' = [trace EXCEPT ![c] = Append(@, "source.get_resources")]
    /\ provider_calls' = [provider_calls EXCEPT ![c] = @ + 1]
    /\ pc' = [pc EXCEPT ![c] = "got"]
    /\ UNCHANGED <<limit_vars, query_vars, more_vars, get_args, saves, called, universe, policy, cache_enabled, cache, ncalls,
                   self, query, cache_key, resources, resource_count, served>>

\* the augmentation's detail call for the next record, merged onto it
GetAugmentStep(c) ==
    /\ pc[c] = "get_augment"
    /\ ~Augmented(Val(resources[c]))
    /\ LET rs == Val(resources[c])
           i  == NextToAugment(rs)
       IN  resources' = [resources EXCEPT ![c] = Some([rs EXCEPT ![i].detail = TRUE])]
    /\ provider_calls' = [provider_calls EXCEPT ![c] = @ + 1]
    /\ UNCHANGED <<aside_vars, saves, called, universe, policy, cache_enabled, cache, ncalls,
                   pc, self, query, cache_key, resource_count, result, trace, served>>

\* the detail call for the next record raises: so does self.augment(resources)
GetAugmentFails(c) ==
    /\ pc[c] = "get_augment"
    /\ ~Augmented(Val(resources[c]))
    /\ \E e \in {ClientError, KeyError} :
          /\ result' = [result EXCEPT ![c] = get_except(e)]
          /\ fault' = [fault EXCEPT ![c] = Some(e)]
    /\ provider_calls' = [provider_calls EXCEPT ![c] = @ + 1]
    /\ trace' = [trace EXCEPT ![c] = Append(@, "augment")]
    /\ pc' = [pc EXCEPT ![c] = "got"]
    /\ UNCHANGED <<limit_vars, query_vars, more_vars, get_args, saves, called, universe, policy, cache_enabled, cache, ncalls,
                   self, query, cache_key, resources, resource_count, served>>

\* resources = self.augment(resources); return resources
GetAugmentReturn(c) ==
    /\ pc[c] = "get_augment"
    /\ Augmented(Val(resources[c]))
    /\ trace' = [trace EXCEPT ![c] = Append(@, "augment")]
    /\ result' = [result EXCEPT ![c] = Return(Val(resources[c]))]
    /\ pc' = [pc EXCEPT ![c] = "got"]
    /\ UNCHANGED <<aside_vars, saves, called, universe, policy, cache_enabled, cache, ncalls,
                   self, query, cache_key, resources, resource_count, provider_calls, served>>

\* a run whose callers use resources() and get_resources()
GetNext ==
    \/ Next
    \/ \E c \in Procs :
          \/ GetCall(c)
          \/ GetCached(c)
          \/ GetSource(c)
          \/ GetSourceFails(c)
          \/ GetAugmentStep(c)
          \/ GetAugmentFails(c)
          \/ GetAugmentReturn(c)

(***************************************************************************)
(* ResourceQuery and ChildResourceQuery.  Parameters are sets of           *)
(* <<key, value>> pairs with one pair a key.  What an enumeration call     *)
(* answers is a sequence of pages (one page for a call that is not         *)
(* paginated); a page is None when the result path finds nothing in it,    *)
(* else Some(items).  An item is a record with the id field or a plain     *)
(* string [str].                                                           *)
(***************************************************************************)
\* parents of one child enumeration
MaxParents == 2

FilterKey == "Names"

ExtraKey == "MaxRecords"

ParentKey == "ParentId"

\* the value the descriptor's extra_args give ExtraKey
DescriptorValue == 100

\* the value a caller gives ExtraKey
CallerValue == 50

\* the parent a caller names itself
CallerParent == 1

Keys(p) == {kv[1] : kv \in p}

ParamValue(p, k) == (CHOOSE kv \in p : kv[1] = k)[2]

\* dict.update: the pairs of extra replace those of p with the same key
update(p, extra) == {kv \in p : kv[1] \notin Keys(extra)} \cup extra

\* if extra_args: params.update(extra_args)
merge_extra_args(m, p) == IF m.extra_args # {} THEN update(p, m.extra_args) ELSE p

Range(seq) == {seq[i] : i \in 1..Len(seq)}

IsString(r) == "str" \in DOMAIN r

Strings(rs) == [i \in 1..Len(rs) |-> [str |-> rs[i].id]]

RECURSIVE Concat(_)
\* the items of the pages that have any, in page order
Concat(pages) ==
    IF pages = <<>> THEN <<>>
    ELSE (IF pages[1] = None THEN <<>> ELSE Val(pages[1])) \o Concat(Tail(pages))

\* results.build_full_result() or op(**params), then path.search(data)
search(pages) ==
    IF \A i \in 1..Len(pages) : pages[i] = None THEN None ELSE Some(Concat(pages))

\* the enumeration's result returned as it is
or_empty_raw(data) == data

\* self._invoke_client_enum(...) or []
or_empty(data) == IF data = None \/ Val(data) = <<>> THEN Some(<<>>) ELSE data

\* pages of an operation whose items are records
RecordPages == {None} \cup {Some(rs) : rs \in Enumerations(Ids, MaxIds)}

\* pages of an operation whose items are plain strings
StringPages == {None} \cup {Some(Strings(rs)) : rs \in Enumerations(Ids, MaxIds)}

PagesOf(kind) == {<<pg>> : pg \in kind} \cup {<<pg, qg>> : pg, qg \in kind}

\* what an enumeration of a resource kind can answer
Answers == PagesOf(RecordPages) \cup PagesOf(StringPages)

\* what an enumeration of the children of one parent can answer
ChildAnswers == {<<pg>> : pg \in RecordPages}

\* client.<enum_op>(**params), or its paginator, and what it answered
EnumCall(p, answer) == [params |-> p, answer |-> answer]

\* the assertion fails only for no identity at all
scalar_assert_fails_empty(m, ids) ==
    m.filter_name # None /\ m.filter_type = "scalar" /\ Len(ids) = 0

\* assert len(identities) == 1, "Scalar server side filter"
scalar_assert_fails(m, ids) ==
    m.filter_name # None /\ m.filter_type = "scalar" /\ Len(ids) # 1

\* if m.filter_name: params[m.filter_name] = identities or identities[0]
server_side_params(m, ids) ==
    IF m.filter_name = None THEN {}
    ELSE IF m.filter_type = "list" THEN {<<Val(m.filter_name), ids>>}
    ELSE IF m.filter_type = "scalar" THEN {<<Val(m.filter_name), ids[1]>>}
    ELSE {}

\* everything the enumeration returned
client_side_all(rs, ids) == rs

\* [r for r in resources if r in identities], or if r[m.id] in identities
client_side(rs, ids) ==
    IF \A i \in 1..Len(rs) : IsString(rs[i])
    THEN SelectSeq(rs, LAMBDA r : r.str \in Range(ids))
    ELSE SelectSeq(rs, LAMBDA r : r.id \in Range(ids))

\* def get(self, resource_manager, identities): up to the call of filter
ResourceQueryGet ==
    /\ rq_pc = "get"
    /\ IF scalar_assert_fails(resource_type, identities)
       THEN /\ rq_result' = Raise(AssertionError)
            /\ rq_pc' = "done"
            /\ UNCHANGED <<params, client_filter>>
       ELSE /\ params' = server_side_params(resource_type, identities)
            /\ client_filter' = (resource_type.filter_name = None)
            /\ rq_pc' = "filter"
            /\ UNCHANGED rq_result
    /\ UNCHANGED <<res_vars, limit_vars, get_vars, more_vars, resource_type, identities, caller_params,
                   parent_ids, rq_op, rq_resources, results, parent_index, enum_calls>>

\* def filter(self, resource_manager, **params)
ResourceQueryFilter ==
    /\ rq_pc = "filter"
    /\ LET merged == merge_extra_args(resource_type, params)
       IN  /\ params' = merged
           /\ \E answer \in Answers :
                 LET found == or_empty(search(answer))
                 IN  /\ enum_calls' = Append(enum_calls, EnumCall(merged, answer))
                     /\ IF rq_op = "get"
                        THEN /\ rq_resources' = found
                             /\ IF client_filter
                                THEN rq_pc' = "client_filter" /\ UNCHANGED rq_result
                                ELSE rq_pc' = "done" /\ rq_result' = Return(found)
                        ELSE /\ rq_result' = Return(found)
                             /\ rq_pc' = "done"
                             /\ UNCHANGED rq_resources
    /\ UNCHANGED <<res_vars, limit_vars, get_vars, more_vars, resource_type, identities, caller_params,
                   parent_ids, rq_op, client_filter, results, parent_index>>

\* if client_filter: ...; return resources
ClientFilter ==
    /\ rq_pc = "client_filter"
    /\ rq_resources' = Some(client_side(Val(rq_resources), identities))
    /\ rq_result' = Return(rq_resources')
    /\ rq_pc' = "done"
    /\ UNCHANGED <<res_vars, limit_vars, get_vars, more_vars, resource_type, identities, caller_params,
                   parent_ids, rq_op, params, client_filter, results, parent_index,
                   enum_calls>>

\* the parent key taken as given whatever the parameters
existing_param_always(parent_key, p) == TRUE

\* existing_param = parent_key in params
existing_param(parent_key, p) == parent_key \in Keys(p)

\* dict(params, **{parent_key: parent_id})
get_parent_parameters(p, parent_id, parent_key) == update(p, {<<parent_key, parent_id>>})

\* every record stamped with the first parent
annotate_first(subset, parent_id) ==
    [i \in 1..Len(subset) |->
        [id |-> subset[i].id, detail |-> subset[i].detail, parent |-> 1]]

\* for r in subset: r[self.parent_key] = parent_id
annotate(subset, parent_id) ==
    [i \in 1..Len(subset) |->
        [id |-> subset[i].id, detail |-> subset[i].detail, parent |-> parent_id]]

\* results.extend([(parent_id, s) for s in subset])
pair_up(subset, parent_id) == [i \in 1..Len(subset) |-> <<parent_id, subset[i]>>]

\* if annotate_parent: for r in subset, when the path found nothing (None)
annotate_raises(m, subset) == m.annotate_parent /\ subset = None

\* ChildResourceQuery.filter up to the loop over the parents
ChildResourceQueryFilter ==
    /\ rq_pc = "child_filter"
    /\ LET merged == merge_extra_args(resource_type, params)
           given  == existing_param(ParentKey, merged)
       IN  /\ params' = merged
           /\ IF ~given /\ Len(parent_ids) = 0
              THEN /\ rq_result' = Return(Some(<<>>))
                   /\ rq_pc' = "done"
                   /\ UNCHANGED enum_calls
              ELSE IF given
              THEN /\ \E answer \in ChildAnswers :
                         /\ enum_calls' = Append(enum_calls, EnumCall(merged, answer))
                         /\ rq_result' = Return(search(answer))
                   /\ rq_pc' = "done"
              ELSE /\ rq_pc' = "fanout"
                   /\ UNCHANGED <<enum_calls, rq_result>>
    /\ results' = <<>>
    /\ parent_index' = 1
    /\ UNCHANGED <<res_vars, limit_vars, get_vars, more_vars, resource_type, identities, caller_params,
                   parent_ids, rq_op, client_filter, rq_resources>>

\* for parent_id in parent_ids: one enumeration, its subset added to results
ChildEnumerate ==
    /\ rq_pc = "fanout"
    /\ parent_index <= Len(parent_ids)
    /\ LET parent_id == parent_ids[parent_index]
           merged_params == get_parent_parameters(params, parent_id, ParentKey)
       IN  \E answer \in ChildAnswers :
              LET subset == search(answer)
                  marked == IF resource_type.annotate_parent
                            THEN annotate(Val(subset), parent_id) ELSE Val(subset)
              IN  /\ enum_calls' = Append(enum_calls, EnumCall(merged_params, answer))
                  /\ IF annotate_raises(resource_type, subset)
                     THEN /\ rq_result' = Raise(TypeError)
                          /\ rq_pc' = "done"
                          /\ UNCHANGED results
                     ELSE /\ results' =
                               IF subset = None \/ Val(subset) = <<>> THEN results
                               ELSE IF resource_type.capture_parent_id
                               THEN results \o pair_up(marked, parent_id)
                               ELSE results \o marked
                          /\ UNCHANGED <<rq_result, rq_pc>>
    /\ parent_index' = parent_index + 1
    /\ UNCHANGED <<res_vars, limit_vars, get_vars, more_vars, resource_type, identities, caller_params,
                   parent_ids, rq_op, params, client_filter, rq_resources>>

\* return results
ChildReturn ==
    /\ rq_pc = "fanout"
    /\ parent_index > Len(parent_ids)
    /\ rq_result' = Return(Some(results))
    /\ rq_pc' = "done"
    /\ UNCHANGED <<res_vars, limit_vars, get_vars, more_vars, resource_type, identities, caller_params,
                   parent_ids, rq_op, params, client_filter, rq_resources, results,
                   parent_index, enum_calls>>

QueryNext ==
    \/ ResourceQueryGet
    \/ ResourceQueryFilter
    \/ ClientFilter
    \/ ChildResourceQueryFilter
    \/ ChildEnumerate
    \/ ChildReturn

\* the breaker on its own
CheckResourceLimit ==
    /\ limit_result = <<>>
    /\ limit_result' = <<check_resource_limit(policy, selection_count, population_count)>>
    /\ UNCHANGED <<res_vars, more_vars, get_vars, query_vars, selection_count, population_count>>

LimitNext == CheckResourceLimit

(***************************************************************************)
(* Initial states.                                                         *)
(***************************************************************************)
Policies(datas, limits, percents) ==
    [data : datas,
     max_resources : {None} \cup {Some(n) : n \in limits},
     max_resources_percent : {None} \cup {Some(n) : n \in percents}]

\* one caller at a time, on one account and region, under every kind of limit
RunUniverse ==
    [procs |-> {1}, accounts |-> {"a1"}, regions |-> {"r1"}, resources |-> {"RDSCluster"},
     queries |-> {None, Some(EmptyParams)}, datas |-> {NoFilters, OneFilter},
     ids |-> Ids, max_calls |-> MaxCalls]

\* two callers at once on one cache key, each with its own filters
RaceUniverse ==
    [procs |-> Procs, accounts |-> {"a1"}, regions |-> {"r1"}, resources |-> {"RDSCluster"},
     queries |-> {None}, datas |-> {NoFilters, OneFilter},
     ids |-> Ids, max_calls |-> MaxCalls]

\* one caller at a time, using resources() and get_resources() in any order
GetUniverse ==
    [procs |-> {1}, accounts |-> {"a1"}, regions |-> {"r1"}, resources |-> {"RDSCluster"},
     queries |-> {None, Some(EmptyParams)}, datas |-> {NoFilters, OneFilter},
     ids |-> Ids, max_calls |-> MaxCalls]

\* one caller at a time, over managers and queries that differ in every
\* component of the cache key
KeyUniverse ==
    [procs |-> {1}, accounts |-> {"a1", "a2"}, regions |-> {"r1", "r2"},
     resources |-> {"RDSCluster", "RDSClusterSnapshot"},
     queries |-> {None, Some(EmptyParams), Some(NamedParams)}, datas |-> {NoFilters},
     ids |-> {1}, max_calls |-> MaxCalls]

\* a descriptor: filter_name, filter_type, enum_spec's extra_args, parent_spec's
\* annotate_parent and the query's capture_parent_id
Descriptors(filters, annotates, captures) ==
    [filter_name : {f[1] : f \in filters}, filter_type : {f[2] : f \in filters},
     extra_args : {{}, {<<ExtraKey, DescriptorValue>>}},
     annotate_parent : annotates, capture_parent_id : captures]

ServerSideFilters ==
    {<<None, "none">>, <<Some(FilterKey), "list">>, <<Some(FilterKey), "scalar">>}

IdentityLists ==
    {<<>>} \cup {<<i>> : i \in Ids} \cup {<<i, j>> : i, j \in Ids}

ParentLists == {[i \in 1..n |-> i] : n \in 0..MaxParents}

CallerParams == {{}, {<<ExtraKey, CallerValue>>}}

ChildCallerParams == CallerParams \cup {p \cup {<<ParentKey, CallerParent>>} : p \in CallerParams}

IdleQuery ==
    /\ resource_type =
          [filter_name |-> None, filter_type |-> "none", extra_args |-> {},
           annotate_parent |-> FALSE, capture_parent_id |-> FALSE]
    /\ identities = <<>>
    /\ caller_params = {}
    /\ parent_ids = <<>>
    /\ rq_op = "none"
    /\ rq_pc = "off"
    /\ params = {}
    /\ client_filter = FALSE
    /\ rq_resources = None
    /\ results = <<>>
    /\ parent_index = 1
    /\ enum_calls = <<>>
    /\ rq_result = Running

IdleCallers(u) ==
    /\ cache = EmptyCache
    /\ ncalls = 0
    /\ pc = [c \in Procs |-> IF c \in u.procs THEN "idle" ELSE "off"]
    /\ self = [c \in Procs |-> IdleManager]
    /\ query = [c \in Procs |-> None]
    /\ cache_key = [c \in Procs |-> IdleKey]
    /\ resources = [c \in Procs |-> None]
    /\ resource_count = [c \in Procs |-> 0]
    /\ result = [c \in Procs |-> Running]
    /\ trace = [c \in Procs |-> <<>>]
    /\ provider_calls = [c \in Procs |-> 0]
    /\ called = [c \in Procs |-> Components(IdleManager, None)]
    /\ served = [c \in Procs |-> None]
    /\ saves = <<>>
    /\ get_args = [c \in Procs |-> IdleArgs]
    /\ fault = [c \in Procs |-> None]

IdleLimit ==
    /\ selection_count = 0
    /\ population_count = 0
    /\ limit_result = <<>>

(***************************************************************************)
(* ConfigSource: the config-snapshot strategy.  The config service holds   *)
(* for each identity a history, newest revision first; a revision's        *)
(* configuration is a dict or its JSON text.                               *)
(***************************************************************************)
ChunkSize == 50

HistoryLimit == 1

EmptyDict == [empty |-> TRUE]

Snapshot(i, n) == [id |-> i, rev |-> n]

Dict(v) == [is_string |-> FALSE, value |-> v]

Text(v) == [is_string |-> TRUE, value |-> [json |-> v]]

Item(cfg) == [configuration |-> cfg]

json_loads(text) == text.json

HistoryKinds == {"missing", "empty", "one", "two", "blank", "raises"}

\* what the service holds for identity i: the call raises, or answers with
\* no 'configurationItems', or with the revisions, newest first
History(kind, i) ==
    [raises |-> kind = "raises",
     items  |-> CASE kind = "empty" -> Some(<<>>)
                  [] kind = "one"   -> Some(<<Item(Dict(Snapshot(i, 1)))>>)
                  [] kind = "two"   -> Some(<<Item(Text(Snapshot(i, 2))),
                                              Item(Dict(Snapshot(i, 1)))>>)
                  [] kind = "blank" -> Some(<<Item(Dict(EmptyDict)),
                                              Item(Dict(Snapshot(i, 1)))>>)
                  [] OTHER          -> None]

get_resource_config_history(h, limit) ==
    IF h.items = None THEN None
    ELSE Some(SubSeq(Val(h.items), 1,
                     IF Len(Val(h.items)) < limit THEN Len(Val(h.items)) ELSE limit))

not_revisions(revisions) == revisions = None \/ Val(revisions) = <<>>

load_resource(item) ==
    IF item.configuration.is_string
    THEN json_loads(item.configuration.value)
    ELSE item.configuration.value

truthy_all(r) == TRUE

truthy(r) == r # EmptyDict

Skipped == [skipped |-> TRUE]

Appended(r) == r # Skipped

\* ConfigSource.get_resources(ids) against the histories hist
config_get_resources(ids, hist) ==
    IF \E k \in 1..Len(ids) : hist[ids[k]].raises THEN Raise(ClientError)
    ELSE LET revisions(k) == get_resource_config_history(hist[ids[k]], HistoryLimit)
             each == [k \in 1..Len(ids) |->
                         IF not_revisions(revisions(k)) THEN Skipped
                         ELSE load_resource(Val(revisions(k))[1])]
         IN Return(SelectSeq(SelectSeq(each, Appended), truthy))

chunks(seq, size) ==
    [k \in 1..((Len(seq) + size - 1) \div size) |->
        SubSeq(seq, (k - 1) * size + 1,
               IF k * size < Len(seq) THEN k * size ELSE Len(seq))]

NoFuture == [state |-> "none"]

Submitted == [state |-> "running"]

Completed(outcome) == [state |-> "done", outcome |-> outcome]

\* the direct call of ConfigSource.get_resources(ids)
ConfigGetResources ==
    /\ cfg_pc = "get_resources"
    /\ cfg_result' = config_get_resources(ids_arg, histories)
    /\ cfg_pc' = "done"
    /\ UNCHANGED <<res_vars, limit_vars, get_vars, query_vars, send_vars, mail_vars, filter_vars, rename_vars, pool_vars, aug_vars, retry_vars, histories, cfg_op,
                   ids_arg, resource_ids, chunk_index, future, in_flight,
                   cfg_results, logged>>

\* resources(): the discovered index, read whole
ConfigDiscover ==
    /\ cfg_pc = "resources"
    /\ resource_ids' = [i \in 1..Len(histories) |-> i]
    /\ chunk_index' = 1
    /\ cfg_pc' = "submit"
    /\ UNCHANGED <<res_vars, limit_vars, get_vars, query_vars, send_vars, mail_vars, filter_vars, rename_vars, pool_vars, aug_vars, retry_vars, histories, cfg_op,
                   ids_arg, future, in_flight, cfg_results, logged, cfg_result>>

\* one turn of the chunk loop: a fresh futures list holding one submission
ConfigSubmit ==
    /\ cfg_pc = "submit"
    /\ chunk_index <= Len(chunks(resource_ids, ChunkSize))
    /\ future' = Submitted
    /\ in_flight' = in_flight \cup {chunk_index}
    /\ cfg_pc' = "as_completed"
    /\ UNCHANGED <<res_vars, limit_vars, get_vars, query_vars, send_vars, mail_vars, filter_vars, rename_vars, pool_vars, aug_vars, retry_vars, histories, cfg_op,
                   ids_arg, resource_ids, chunk_index, cfg_results, logged, cfg_result>>

\* a worker finishes the lookup of a chunk it holds
ConfigLookup ==
    /\ \E k \in in_flight :
        /\ in_flight' = in_flight \ {k}
        /\ IF k = chunk_index
           THEN future' = Completed(config_get_resources(
                                       chunks(resource_ids, ChunkSize)[k], histories))
           ELSE UNCHANGED future
    /\ UNCHANGED <<res_vars, limit_vars, get_vars, query_vars, send_vars, mail_vars, filter_vars, rename_vars, pool_vars, aug_vars, retry_vars, histories, cfg_op, cfg_pc,
                   ids_arg, resource_ids, chunk_index, cfg_results, logged, cfg_result>>

\* as_completed hands the future back: a clean one extends results
ConfigCollect ==
    /\ cfg_pc = "as_completed"
    /\ future.state = "done"
    /\ future.outcome.status = "returned"
    /\ cfg_results' = cfg_results \o future.outcome.value
    /\ chunk_index' = chunk_index + 1
    /\ future' = NoFuture
    /\ cfg_pc' = "submit"
    /\ UNCHANGED <<res_vars, limit_vars, get_vars, query_vars, send_vars, mail_vars, filter_vars, rename_vars, pool_vars, aug_vars, retry_vars, histories, cfg_op,
                   ids_arg, resource_ids, in_flight, logged, cfg_result>>

\* a failed one is logged, and f.result() then raises its exception out of
\* resources()
ConfigCollectFails ==
    /\ cfg_pc = "as_completed"
    /\ future.state = "done"
    /\ future.outcome.status = "raised"
    /\ logged' = logged + 1
    /\ cfg_result' = Raise(future.outcome.exc)
    /\ cfg_pc' = "done"
    /\ UNCHANGED <<res_vars, limit_vars, get_vars, query_vars, send_vars, mail_vars, filter_vars, rename_vars, pool_vars, aug_vars, retry_vars, histories, cfg_op,
                   ids_arg, resource_ids, chunk_index, future, in_flight, cfg_results>>

ConfigReturn ==
    /\ cfg_pc = "submit"
    /\ chunk_index > Len(chunks(resource_ids, ChunkSize))
    /\ cfg_result' = Return(cfg_results)
    /\ cfg_pc' = "done"
    /\ UNCHANGED <<res_vars, limit_vars, get_vars, query_vars, send_vars, mail_vars, filter_vars, rename_vars, pool_vars, aug_vars, retry_vars, histories, cfg_op,
                   ids_arg, resource_ids, chunk_index, future, in_flight,
                   cfg_results, logged>>

ConfigNext ==
    \/ ConfigGetResources
    \/ ConfigDiscover
    \/ ConfigSubmit
    \/ ConfigLookup
    \/ ConfigCollect
    \/ ConfigCollectFails
    \/ ConfigReturn

IdleConfig ==
    /\ histories = <<>>
    /\ cfg_op = "none"
    /\ cfg_pc = "idle"
    /\ ids_arg = <<>>
    /\ resource_ids = <<>>
    /\ chunk_index = 1
    /\ future = NoFuture
    /\ in_flight = {}
    /\ cfg_results = <<>>
    /\ logged = 0
    /\ cfg_result = Running

(***************************************************************************)
(* Augmentation: the Describe source's scalar detail calls, and the tag    *)
(* lookup of RDSCluster.augment.  aug_faults says what the provider does    *)
(* with the call made for each item.                                       *)
(***************************************************************************)
NotFound == [raised |-> TRUE, kind |-> "NotFound"]

DBClusterNotFoundFault == [raised |-> TRUE, kind |-> "DBClusterNotFoundFault"]

Faults == {"none", "not_found", "other"}

\* the detail response for item i, projected through detail_path
DetailResponse(i) == [detail |-> TRUE]

\* response[model.id] = r; r = response
keyed_response(r, response) == [id |-> r.str, detail |-> response.detail]

\* r.update(response)
updated(r, response) == [id |-> r.id, detail |-> response.detail]

\* one item of _scalar_augment's loop, the detail call having answered
scalar_item(key, r) ==
    IF key = None THEN keyed_response(r, DetailResponse(r.str))
    ELSE updated(r, DetailResponse(r.id))

ItemOf(r) == IF "str" \in DOMAIN r THEN r.str ELSE r.id

\* the detail call for the next item answers
ScalarDetail ==
    /\ aug_pc = "scalar"
    /\ aug_index <= Len(aug_input)
    /\ aug_faults[ItemOf(aug_input[aug_index])] = "none"
    /\ aug_results' = Append(aug_results, Some(scalar_item(param_key, aug_input[aug_index])))
    /\ aug_index' = aug_index + 1
    /\ UNCHANGED <<res_vars, limit_vars, get_vars, query_vars, send_vars, mail_vars, filter_vars, rename_vars, pool_vars, config_vars, retry_vars,
                   aug_op, aug_pc, aug_input, aug_faults, param_key, aug_result>>

\* the detail call for the next item raises: nothing in _scalar_augment or
\* in augment catches it
ScalarDetailRaises ==
    /\ aug_pc = "scalar"
    /\ aug_index <= Len(aug_input)
    /\ aug_faults[ItemOf(aug_input[aug_index])] # "none"
    /\ aug_result' = Raise(IF aug_faults[ItemOf(aug_input[aug_index])] = "not_found"
                           THEN NotFound ELSE ClientError)
    /\ aug_pc' = "done"
    /\ UNCHANGED <<res_vars, limit_vars, get_vars, query_vars, send_vars, mail_vars, filter_vars, rename_vars, pool_vars, config_vars, retry_vars,
                   aug_op, aug_input, aug_faults, param_key, aug_index, aug_results>>

Present(o) == o # None

Unwrap(seq) == [k \in 1..Len(seq) |-> Val(seq[k])]

ScalarReturn ==
    /\ aug_pc = "scalar"
    /\ aug_index > Len(aug_input)
    /\ aug_result' = Return(Unwrap(aug_results))
    /\ aug_pc' = "done"
    /\ UNCHANGED <<res_vars, limit_vars, get_vars, query_vars, send_vars, mail_vars, filter_vars, rename_vars, pool_vars, config_vars, retry_vars,
                   aug_op, aug_input, aug_faults, param_key, aug_index, aug_results>>

\* list_tags_for_resource(ResourceName=arn of i)['TagList']
TagList(i) == <<[Key |-> "owner", Value |-> i]>>

Cluster(i) == [id |-> i, status |-> "available", Tags |-> None]

\* db['Tags'] = ...
tagged(db, tags) == [db EXCEPT !.Tags = Some(tags)]

caught_never(f) == FALSE

\* except client.exceptions.DBClusterNotFoundFault
caught(f) == f = "not_found"

\* process_tags(db), the tag lookup having answered
TagsLookup ==
    /\ aug_pc = "rds_tags"
    /\ aug_index <= Len(aug_input)
    /\ aug_faults[aug_input[aug_index].id] = "none"
    /\ aug_results' = Append(aug_results,
                             Some(tagged(aug_input[aug_index],
                                         TagList(aug_input[aug_index].id))))
    /\ aug_index' = aug_index + 1
    /\ UNCHANGED <<res_vars, limit_vars, get_vars, query_vars, send_vars, mail_vars, filter_vars, rename_vars, pool_vars, config_vars, retry_vars,
                   aug_op, aug_pc, aug_input, aug_faults, param_key, aug_result>>

\* process_tags(db), the tag lookup raising a fault the except clause names
TagsLookupCaught ==
    /\ aug_pc = "rds_tags"
    /\ aug_index <= Len(aug_input)
    /\ aug_faults[aug_input[aug_index].id] # "none"
    /\ caught(aug_faults[aug_input[aug_index].id])
    /\ aug_results' = Append(aug_results, None)
    /\ aug_index' = aug_index + 1
    /\ UNCHANGED <<res_vars, limit_vars, get_vars, query_vars, send_vars, mail_vars, filter_vars, rename_vars, pool_vars, config_vars, retry_vars,
                   aug_op, aug_pc, aug_input, aug_faults, param_key, aug_result>>

\* process_tags(db), the tag lookup raising any other fault
TagsLookupRaises ==
    /\ aug_pc = "rds_tags"
    /\ aug_index <= Len(aug_input)
    /\ aug_faults[aug_input[aug_index].id] # "none"
    /\ ~caught(aug_faults[aug_input[aug_index].id])
    /\ aug_result' = Raise(IF aug_faults[aug_input[aug_index].id] = "not_found"
                           THEN DBClusterNotFoundFault ELSE ClientError)
    /\ aug_pc' = "done"
    /\ UNCHANGED <<res_vars, limit_vars, get_vars, query_vars, send_vars, mail_vars, filter_vars, rename_vars, pool_vars, config_vars, retry_vars,
                   aug_op, aug_input, aug_faults, param_key, aug_index, aug_results>>

\* list(filter(None, _rds_cluster_tags(...))), itself list(filter(None, map(...)))
TagsReturn ==
    /\ aug_pc = "rds_tags"
    /\ aug_index > Len(aug_input)
    /\ aug_result' = Return(Unwrap(SelectSeq(SelectSeq(aug_results, Present), Present)))
    /\ aug_pc' = "done"
    /\ UNCHANGED <<res_vars, limit_vars, get_vars, query_vars, send_vars, mail_vars, filter_vars, rename_vars, pool_vars, config_vars, retry_vars,
                   aug_op, aug_input, aug_faults, param_key, aug_index, aug_results>>

AugmentNext ==
    \/ ScalarDetail
    \/ ScalarDetailRaises
    \/ ScalarReturn
    \/ TagsLookup
    \/ TagsLookupCaught
    \/ TagsLookupRaises
    \/ TagsReturn

IdlePool ==
    /\ pool_op = "none"
    /\ pool_pc = "idle"
    /\ pool_input = <<>>
    /\ delete_faults = <<>>
    /\ futures = <<>>
    /\ observed = {}
    /\ error = None
    /\ pool_logged = 0
    /\ deleted = {}
    /\ pool_result = Running

IdleRename ==
    /\ rename_pc = "idle"
    /\ resource_set = <<>>
    /\ held = <<>>
    /\ tag_calls = <<>>

IdleFilter ==
    /\ filter_pc = "idle"
    /\ filter_class = "none"
    /\ filter_input = <<>>
    /\ tag_resources = <<>>
    /\ res = 0
    /\ resource_sets = {}
    /\ filter_error = None

IdleMail ==
    /\ mail_pc = "idle"
    /\ queue = <<>>
    /\ queue_messages = <<>>
    /\ message_index = 1
    /\ decisions = {}

IdleSend ==
    /\ send_pc = "idle"
    /\ send_retries = 0
    /\ send_response = None
    /\ send_received = <<>>
    /\ send_sleeps = <<>>
    /\ send_result = Running

\* universal_retry not called
IdleRetry ==
    /\ ResourceARNList = {}
    /\ idx = 0
    /\ retry_pc = "idle"
    /\ method_calls = <<>>
    /\ sleeps = <<>>
    /\ retry_result = Running

IdleAugment ==
    /\ aug_op = "none"
    /\ aug_pc = "idle"
    /\ aug_input = <<>>
    /\ aug_faults = <<>>
    /\ param_key = None
    /\ aug_index = 1
    /\ aug_results = <<>>
    /\ aug_result = Running

\* the enumerated items, each once, in any order
Enumerated1 == {ids \in IdentityLists : \A j, k \in 1..Len(ids) : j # k => ids[j] # ids[k]}

\* one call of DescribeSource.augment with a detail_spec, or of
\* RDSCluster.augment
AugmentInit ==
    /\ universe = RunUniverse
    /\ policy \in Policies({NoFilters}, {}, {})
    /\ cache_enabled = FALSE
    /\ IdleCallers(universe)
    /\ IdleQuery
    /\ IdleLimit
    /\ IdleSend
    /\ IdleMail
    /\ IdleFilter
    /\ IdleRename
    /\ IdlePool
    /\ IdleConfig
    /\ IdleRetry
    /\ aug_op \in {"scalar", "rds_tags"}
    /\ aug_pc = aug_op
    /\ param_key \in IF aug_op = "scalar" THEN {None, Some("id")} ELSE {Some("id")}
    /\ \E ids \in Enumerated1 :
          aug_input = [k \in 1..Len(ids) |->
                          IF aug_op = "rds_tags" THEN Cluster(ids[k])
                          ELSE IF param_key = None THEN [str |-> ids[k]]
                          ELSE Raw(ids[k])]
    /\ aug_faults \in [Ids -> Faults]
    /\ aug_index = 1
    /\ aug_results = <<>>
    /\ aug_result = Running

(***************************************************************************)
(* universal_retry(method, ResourceARNList): the bulk tagging call whose   *)
(* response carries the per-item failures.  The ARN list is kept as the    *)
(* set of its ARNs.  Delays are in half seconds, before jitter.            *)
(***************************************************************************)
MaxArns == 2

Arns == 1..MaxArns

max_attempts == 6

DelayStart == 3

DelayStop == 512

DelayFactor == 2

RECURSIVE backoff_delays(_, _, _)
\* the delays from start while they do not exceed stop, each factor times
\* the one before
backoff_delays(start, stop, factor) ==
    IF start > stop THEN <<>>
    ELSE <<start>> \o backoff_delays(start * factor, stop, factor)

ErrorCodes == {"ThrottlingException", "PermissionDenied"}

\* what method can answer: a response with no FailedResourcesMap, or with
\* one naming some ARNs each with an error code
Responses(n) ==
    {[Result |-> n, FailedResourcesMap |-> None]} \cup
    {[Result |-> n, FailedResourcesMap |-> Some(f)] :
        f \in UNION {[S -> ErrorCodes] : S \in SUBSET Arns}}

\* response.get('FailedResourcesMap', {})
failures_of(response) ==
    IF response.FailedResourcesMap = None THEN <<>> ELSE Val(response.FailedResourcesMap)

is_throttle_any(code) == TRUE

is_throttle(code) == code = "ThrottlingException"

throttles_of(failures) == {a \in DOMAIN failures : is_throttle(failures[a])}

errors_of(failures) ==
    [a \in {b \in DOMAIN failures : ~is_throttle(failures[b])} |-> failures[a]]

TagErrors(errors) ==
    [raised |-> TRUE, kind |-> "Exception", message |-> "Resource Tag Errors",
     errors |-> errors]

TagThrottled(throttles) ==
    [raised |-> TRUE, kind |-> "Exception", message |-> "Resource Tag Throttled",
     arns |-> throttles]

work_list_whole(throttles) == Arns

\* ResourceARNList = list(throttles)
work_list(throttles) == throttles

exhausted_late(i) == i = max_attempts

\* if idx == max_attempts - 1
exhausted(i) == i = max_attempts - 1

slept_not(sl, delay) == sl

\* time.sleep(delay)
slept(sl, delay) == Append(sl, delay)

\* the loop runs out of delays: the function falls off its end
NoResponse == [Result |-> 0, FailedResourcesMap |-> None]

Delays == backoff_delays(DelayStart, DelayStop, DelayFactor)

Called(response) ==
    /\ retry_pc = "call"
    /\ response \in Responses(idx + 1)
    /\ method_calls' = Append(method_calls,
                              [ResourceARNList |-> ResourceARNList, response |-> response])

\* the response reports no failure
RetryReturns ==
    \E response \in Responses(idx + 1) :
        /\ Called(response)
        /\ DOMAIN failures_of(response) = {}
        /\ retry_result' = Return(response)
        /\ retry_pc' = "done"
        /\ UNCHANGED <<res_vars, limit_vars, get_vars, query_vars, send_vars, mail_vars, filter_vars, rename_vars, pool_vars, config_vars, aug_vars,
                       ResourceARNList, idx, sleeps>>

\* it reports a failure that is no throttle
RetryErrors ==
    \E response \in Responses(idx + 1) :
        /\ Called(response)
        /\ DOMAIN failures_of(response) # {}
        /\ DOMAIN errors_of(failures_of(response)) # {}
        /\ retry_result' = Raise(TagErrors(errors_of(failures_of(response))))
        /\ retry_pc' = "done"
        /\ UNCHANGED <<res_vars, limit_vars, get_vars, query_vars, send_vars, mail_vars, filter_vars, rename_vars, pool_vars, config_vars, aug_vars,
                       ResourceARNList, idx, sleeps>>

\* it reports throttles only, at the last attempt
RetryExhausted ==
    \E response \in Responses(idx + 1) :
        /\ Called(response)
        /\ DOMAIN failures_of(response) # {}
        /\ DOMAIN errors_of(failures_of(response)) = {}
        /\ exhausted(idx)
        /\ retry_result' = Raise(TagThrottled(throttles_of(failures_of(response))))
        /\ retry_pc' = "done"
        /\ UNCHANGED <<res_vars, limit_vars, get_vars, query_vars, send_vars, mail_vars, filter_vars, rename_vars, pool_vars, config_vars, aug_vars,
                       ResourceARNList, idx, sleeps>>

\* it reports throttles only: sleep, then go on with the throttled ARNs
RetrySleeps ==
    \E response \in Responses(idx + 1) :
        /\ Called(response)
        /\ DOMAIN failures_of(response) # {}
        /\ DOMAIN errors_of(failures_of(response)) = {}
        /\ ~exhausted(idx)
        /\ sleeps' = slept(sleeps, Delays[idx + 1])
        /\ ResourceARNList' = work_list(throttles_of(failures_of(response)))
        /\ idx' = idx + 1
        /\ IF idx + 1 < Len(Delays)
           THEN UNCHANGED <<retry_pc, retry_result>>
           ELSE retry_pc' = "done" /\ retry_result' = Return(NoResponse)
        /\ UNCHANGED <<res_vars, limit_vars, get_vars, query_vars, send_vars, mail_vars, filter_vars, rename_vars, pool_vars, config_vars, aug_vars>>

RetryNext ==
    \/ RetryReturns
    \/ RetryErrors
    \/ RetryExhausted
    \/ RetrySleeps

\* one call of universal_retry
RetryInit ==
    /\ universe = RunUniverse
    /\ policy \in Policies({NoFilters}, {}, {})
    /\ cache_enabled = FALSE
    /\ IdleCallers(universe)
    /\ IdleQuery
    /\ IdleLimit
    /\ IdleSend
    /\ IdleMail
    /\ IdleFilter
    /\ IdleRename
    /\ IdlePool
    /\ IdleConfig
    /\ IdleAugment
    /\ ResourceARNList \in SUBSET Arns
    /\ idx = 0
    /\ retry_pc = "call"
    /\ method_calls = <<>>
    /\ sleeps = <<>>
    /\ retry_result = Running


(***************************************************************************)
(* Actions that fan chunks out over a worker pool: the universal tagging   *)
(* actions (_common_tag_processer) and RDSClusterSnapshotDelete.process.   *)
(* A future is [chunk, state, at, outcome]: at is the place of its task in *)
(* the chunk.                                                              *)
(***************************************************************************)
BatchSize == 20

TagConcurrency == 1

SnapshotChunkSize == 50

SnapshotWorkers == 2

Reverse(seq) == [k \in 1..Len(seq) |-> seq[Len(seq) + 1 - k]]

PoolChunks ==
    IF pool_op = "tag" THEN chunks(pool_input, BatchSize)
    ELSE chunks(Reverse(pool_input), SnapshotChunkSize)

max_workers == IF pool_op = "tag" THEN TagConcurrency ELSE SnapshotWorkers

Queued(chunk) == [chunk |-> chunk, state |-> "queued", at |-> 1, outcome |-> Running]

InState(st) == {k \in 1..Len(futures) : futures[k].state = st}

\* what universal_retry raises inside a task
TagFailures == {TagErrors([a \in {1} |-> "PermissionDenied"]), TagThrottled({1})}

\* futures.append(w.submit(...)) for the next chunk
PoolSubmit ==
    /\ pool_pc = "submit"
    /\ Len(futures) < Len(PoolChunks)
    /\ futures' = Append(futures, Queued(PoolChunks[Len(futures) + 1]))
    /\ UNCHANGED <<res_vars, limit_vars, get_vars, query_vars, send_vars, mail_vars, filter_vars, rename_vars, config_vars, aug_vars, retry_vars,
                   pool_op, pool_pc, pool_input, delete_faults, observed, error,
                   pool_logged, deleted, pool_result>>

\* every chunk is submitted: on to as_completed(futures)
PoolSubmitted ==
    /\ pool_pc = "submit"
    /\ Len(futures) = Len(PoolChunks)
    /\ pool_pc' = "as_completed"
    /\ UNCHANGED <<res_vars, limit_vars, get_vars, query_vars, send_vars, mail_vars, filter_vars, rename_vars, config_vars, aug_vars, retry_vars,
                   pool_op, pool_input, delete_faults, futures, observed, error,
                   pool_logged, deleted, pool_result>>

\* a free worker takes the task queued first
PoolStart ==
    /\ InState("queued") # {}
    /\ Cardinality(InState("running")) < max_workers
    /\ LET k == CHOOSE j \in InState("queued") : \A i \in InState("queued") : j <= i
       IN  futures' = [futures EXCEPT ![k].state = "running"]
    /\ UNCHANGED <<res_vars, limit_vars, get_vars, query_vars, send_vars, mail_vars, filter_vars, rename_vars, config_vars, aug_vars, retry_vars,
                   pool_op, pool_pc, pool_input, delete_faults, observed, error,
                   pool_logged, deleted, pool_result>>

\* process_resource_set: universal_retry returns its response
TagTaskReturns ==
    /\ pool_op = "tag"
    /\ \E k \in InState("running") :
          futures' = [futures EXCEPT ![k].state = "done", ![k].outcome = Return(None)]
    /\ UNCHANGED <<res_vars, limit_vars, get_vars, query_vars, send_vars, mail_vars, filter_vars, rename_vars, config_vars, aug_vars, retry_vars,
                   pool_op, pool_pc, pool_input, delete_faults, observed, error,
                   pool_logged, deleted, pool_result>>

\* process_resource_set: universal_retry raises
TagTaskRaises ==
    /\ pool_op = "tag"
    /\ \E k \in InState("running"), e \in TagFailures :
          futures' = [futures EXCEPT ![k].state = "done", ![k].outcome = Raise(e)]
    /\ UNCHANGED <<res_vars, limit_vars, get_vars, query_vars, send_vars, mail_vars, filter_vars, rename_vars, config_vars, aug_vars, retry_vars,
                   pool_op, pool_pc, pool_input, delete_faults, observed, error,
                   pool_logged, deleted, pool_result>>

\* except (DBSnapshotNotFoundFault, InvalidDBSnapshotStateFault): continue
skipped(f) == f \in {"not_found", "invalid_state"}

\* process_snapshot_set: delete_db_cluster_snapshot for the next snapshot answers
SnapshotDeleted ==
    /\ pool_op = "snapshot_delete"
    /\ \E k \in InState("running") :
          /\ futures[k].at <= Len(futures[k].chunk)
          /\ delete_faults[futures[k].chunk[futures[k].at]] = "none"
          /\ deleted' = deleted \cup {futures[k].chunk[futures[k].at]}
          /\ futures' = [futures EXCEPT ![k].at = @ + 1]
    /\ UNCHANGED <<res_vars, limit_vars, get_vars, query_vars, send_vars, mail_vars, filter_vars, rename_vars, config_vars, aug_vars, retry_vars,
                   pool_op, pool_pc, pool_input, delete_faults, observed, error,
                   pool_logged, pool_result>>

\* it raises a fault the except clause names: on to the next snapshot
SnapshotSkipped ==
    /\ pool_op = "snapshot_delete"
    /\ \E k \in InState("running") :
          /\ futures[k].at <= Len(futures[k].chunk)
          /\ delete_faults[futures[k].chunk[futures[k].at]] # "none"
          /\ skipped(delete_faults[futures[k].chunk[futures[k].at]])
          /\ futures' = [futures EXCEPT ![k].at = @ + 1]
    /\ UNCHANGED <<res_vars, limit_vars, get_vars, query_vars, send_vars, mail_vars, filter_vars, rename_vars, config_vars, aug_vars, retry_vars,
                   pool_op, pool_pc, pool_input, delete_faults, observed, error,
                   pool_logged, deleted, pool_result>>

\* it raises anything else: the task ends with it
SnapshotFails ==
    /\ pool_op = "snapshot_delete"
    /\ \E k \in InState("running") :
          /\ futures[k].at <= Len(futures[k].chunk)
          /\ delete_faults[futures[k].chunk[futures[k].at]] # "none"
          /\ ~skipped(delete_faults[futures[k].chunk[futures[k].at]])
          /\ futures' = [futures EXCEPT ![k].state = "done",
                                        ![k].outcome = Raise(ClientError)]
    /\ UNCHANGED <<res_vars, limit_vars, get_vars, query_vars, send_vars, mail_vars, filter_vars, rename_vars, config_vars, aug_vars, retry_vars,
                   pool_op, pool_pc, pool_input, delete_faults, observed, error,
                   pool_logged, deleted, pool_result>>

\* process_snapshot_set is through its set
SnapshotSetDone ==
    /\ pool_op = "snapshot_delete"
    /\ \E k \in InState("running") :
          /\ futures[k].at > Len(futures[k].chunk)
          /\ futures' = [futures EXCEPT ![k].state = "done", ![k].outcome = Return(None)]
    /\ UNCHANGED <<res_vars, limit_vars, get_vars, query_vars, send_vars, mail_vars, filter_vars, rename_vars, config_vars, aug_vars, retry_vars,
                   pool_op, pool_pc, pool_input, delete_faults, observed, error,
                   pool_logged, deleted, pool_result>>

\* as_completed yields a finished future: its exception is logged, and
\* RDSClusterSnapshotDelete keeps it in error
PoolObserve ==
    /\ pool_pc = "as_completed"
    /\ \E k \in InState("done") \ observed :
          /\ observed' = observed \cup {k}
          /\ IF futures[k].outcome.status = "raised"
             THEN /\ pool_logged' = pool_logged + 1
                  /\ error' = IF pool_op = "tag" THEN error
                              ELSE Some(futures[k].outcome.exc)
             ELSE UNCHANGED <<pool_logged, error>>
    /\ UNCHANGED <<res_vars, limit_vars, get_vars, query_vars, send_vars, mail_vars, filter_vars, rename_vars, config_vars, aug_vars, retry_vars,
                   pool_op, pool_pc, pool_input, delete_faults, futures, deleted,
                   pool_result>>

process_outcome_quiet(err, input) == Return(Some(input))

\* if error: raise error; return snapshots
process_outcome(err, input) ==
    IF err # None THEN Raise(Val(err)) ELSE Return(Some(input))

\* the loop over as_completed ends and the pool is left
PoolExit ==
    /\ pool_pc = "as_completed"
    /\ observed = 1..Len(futures)
    /\ pool_result' = IF pool_op = "tag" THEN Return(None)
                      ELSE process_outcome(error, pool_input)
    /\ pool_pc' = "done"
    /\ UNCHANGED <<res_vars, limit_vars, get_vars, query_vars, send_vars, mail_vars, filter_vars, rename_vars, config_vars, aug_vars, retry_vars,
                   pool_op, pool_input, delete_faults, futures, observed, error,
                   pool_logged, deleted>>

PoolNext ==
    \/ PoolSubmit
    \/ PoolSubmitted
    \/ PoolStart
    \/ TagTaskReturns
    \/ TagTaskRaises
    \/ SnapshotDeleted
    \/ SnapshotSkipped
    \/ SnapshotFails
    \/ SnapshotSetDone
    \/ PoolObserve
    \/ PoolExit

DeleteFaults == {"none", "not_found", "invalid_state", "other"}

\* how many resources the action is given
TagPopulations == {0, 1, BatchSize, BatchSize + 1, 2 * BatchSize + 1}

SnapshotPopulations == {0, 1, SnapshotChunkSize, SnapshotChunkSize + 1, 2 * SnapshotChunkSize + 1}

\* the snapshots whose deletion may fail: the first one of each chunk
SnapshotBoundary == {1, SnapshotChunkSize + 1}

\* one call of a universal tagging action's process, or of
\* RDSClusterSnapshotDelete.process
PoolInit ==
    /\ universe = RunUniverse
    /\ policy \in Policies({NoFilters}, {}, {})
    /\ cache_enabled = FALSE
    /\ IdleCallers(universe)
    /\ IdleQuery
    /\ IdleLimit
    /\ IdleSend
    /\ IdleMail
    /\ IdleFilter
    /\ IdleRename
    /\ IdleConfig
    /\ IdleAugment
    /\ IdleRetry
    /\ pool_op \in {"tag", "snapshot_delete"}
    /\ pool_pc = "submit"
    /\ \E n \in IF pool_op = "tag" THEN TagPopulations ELSE SnapshotPopulations :
          /\ pool_input = [i \in 1..n |-> i]
          /\ delete_faults \in
                IF pool_op = "tag" THEN {[i \in 1..n |-> "none"]}
                ELSE {[i \in 1..n |-> IF i \in SnapshotBoundary THEN kind[i] ELSE "none"] :
                        kind \in [SnapshotBoundary -> DeleteFaults]}
    /\ futures = <<>>
    /\ observed = {}
    /\ error = None
    /\ pool_logged = 0
    /\ deleted = {}
    /\ pool_result = Running


(***************************************************************************)
(* RenameTag.process_rename(tag_value, resource_set).  A resource's tags   *)
(* are [old, new, others]: whether it carries old_key, whether it carries  *)
(* new_key, and how many other tags it has.                                *)
(***************************************************************************)
tag_count_max == 50

\* len(r.get('Tags', []))
TagCount(t) == t.others + (IF t.old THEN 1 ELSE 0) + (IF t.new THEN 1 ELSE 0)

\* client.create_tags(Resources=ids, Tags=[new_key])
create_tag(h, ids) == [i \in DOMAIN h |-> IF i \in ids THEN [h[i] EXCEPT !.new = TRUE] ELSE h[i]]

\* client.delete_tags(Resources=ids, Tags=[old_key])
delete_tag(h, ids) == [i \in DOMAIN h |-> IF i \in ids THEN [h[i] EXCEPT !.old = FALSE] ELSE h[i]]

creates_first_all(r) == TRUE

\* len(r.get('Tags', [])) < self.tag_count_max
creates_first(r) == TagCount(r.Tags) < tag_count_max

\* len(r.get('Tags', [])) > self.tag_count_max - 1
creates_last(r) == TagCount(r.Tags) > tag_count_max - 1

IdsOf(seq) == {seq[k].id : k \in 1..Len(seq)}

TagCall(op, ids) == [op |-> op, ids |-> ids]

\* the new tag is created first where there is room for it
RenameCreateFirst ==
    /\ rename_pc = "create_first"
    /\ LET rename_ids == IdsOf(SelectSeq(resource_set, creates_first))
       IN  IF rename_ids # {}
           THEN /\ held' = create_tag(held, rename_ids)
                /\ tag_calls' = Append(tag_calls, TagCall("create", rename_ids))
           ELSE UNCHANGED <<held, tag_calls>>
    /\ rename_pc' = "delete"
    /\ UNCHANGED <<res_vars, limit_vars, get_vars, query_vars, send_vars, mail_vars, filter_vars, config_vars, aug_vars, retry_vars, pool_vars,
                   resource_set>>

\* the old tag is deleted on every resource of the set
RenameDelete ==
    /\ rename_pc = "delete"
    /\ held' = delete_tag(held, IdsOf(resource_set))
    /\ tag_calls' = Append(tag_calls, TagCall("delete", IdsOf(resource_set)))
    /\ rename_pc' = "create_last"
    /\ UNCHANGED <<res_vars, limit_vars, get_vars, query_vars, send_vars, mail_vars, filter_vars, config_vars, aug_vars, retry_vars, pool_vars,
                   resource_set>>

\* the new tag is created on the resources that had no room before
RenameCreateLast ==
    /\ rename_pc = "create_last"
    /\ LET rename_ids == IdsOf(SelectSeq(resource_set, creates_last))
       IN  IF rename_ids # {}
           THEN /\ held' = create_tag(held, rename_ids)
                /\ tag_calls' = Append(tag_calls, TagCall("create", rename_ids))
           ELSE UNCHANGED <<held, tag_calls>>
    /\ rename_pc' = "done"
    /\ UNCHANGED <<res_vars, limit_vars, get_vars, query_vars, send_vars, mail_vars, filter_vars, config_vars, aug_vars, retry_vars, pool_vars,
                   resource_set>>

RenameNext ==
    \/ RenameCreateFirst
    \/ RenameDelete
    \/ RenameCreateLast

\* the tags a resource of the set can have: old_key always, new_key or
\* not, and so many others that it has 1, 2, 49 or 50 tags
TagShapes ==
    {t \in [old : {TRUE}, new : BOOLEAN, others : {0, tag_count_max - 2, tag_count_max - 1}] :
        TagCount(t) <= tag_count_max}

\* one call of process_rename
RenameInit ==
    /\ universe = RunUniverse
    /\ policy \in Policies({NoFilters}, {}, {})
    /\ cache_enabled = FALSE
    /\ IdleCallers(universe)
    /\ IdleQuery
    /\ IdleLimit
    /\ IdleSend
    /\ IdleMail
    /\ IdleFilter
    /\ IdleConfig
    /\ IdleAugment
    /\ IdleRetry
    /\ IdlePool
    /\ rename_pc = "create_first"
    /\ \E n \in 1..MaxIds : \E shape \in [1..n -> TagShapes] :
          /\ resource_set = [i \in 1..n |-> [id |-> i, Tags |-> shape[i]]]
          /\ held = shape
    /\ tag_calls = <<>>


(***************************************************************************)
(* RenameTag.filter_resources / NormalizeTag.filter_resources, followed by *)
(* create_set, as process() calls them.  A resource is [id, tag]: tag is   *)
(* the value of the configured key (old_key for RenameTag, key for         *)
(* NormalizeTag) among its Tags, or None when it has no such tag.          *)
(***************************************************************************)
MaxResources == 3

TagClasses == {"RenameTag", "NormalizeTag"}

TagValues == {"a", "b"}

\* old_key not in tags.keys()  /  key not in tags.keys()
lacks_key(r) == r.tag = None

\* list.pop(i), i counted from 0
pop(seq, i) == SubSeq(seq, 1, i) \o SubSeq(seq, i + 2, Len(seq))

\* the resources create_set puts under one tag value
SetOf(instances, v) ==
    [value |-> v, members |-> SelectSeq(instances, LAMBDA r : r.tag = Some(v))]

\* create_set's dictionary, one entry per tag value met
create_set(instances) ==
    {SetOf(instances, v) : v \in {w \in TagValues : \E k \in 1..Len(instances) : instances[k].tag = Some(w)}}

\* one turn of "for r in resources": the iterator hands out the element at
\* its position, which has the key
FilterKeeps ==
    /\ filter_pc = "filtering"
    /\ res < Len(tag_resources)
    /\ ~lacks_key(tag_resources[res + 1])
    /\ res' = res + 1
    /\ UNCHANGED <<res_vars, limit_vars, get_vars, query_vars, send_vars, mail_vars, config_vars, aug_vars, retry_vars, pool_vars, rename_vars,
                   filter_pc, filter_class, filter_input, tag_resources, resource_sets, filter_error>>

\* one turn of "for r in resources": the element lacks the key and is
\* popped from the list the loop iterates; the iterator's position still
\* moves on by one
FilterPops ==
    /\ filter_pc = "filtering"
    /\ res < Len(tag_resources)
    /\ lacks_key(tag_resources[res + 1])
    /\ tag_resources' = pop(tag_resources, res)
    /\ res' = res + 1
    /\ UNCHANGED <<res_vars, limit_vars, get_vars, query_vars, send_vars, mail_vars, config_vars, aug_vars, retry_vars, pool_vars, rename_vars,
                   filter_pc, filter_class, filter_input, resource_sets, filter_error>>

\* the iterator's position has reached the end of the (shrunk) list
FilterReturns ==
    /\ filter_pc = "filtering"
    /\ res >= Len(tag_resources)
    /\ filter_pc' = "create_set"
    /\ UNCHANGED <<res_vars, limit_vars, get_vars, query_vars, send_vars, mail_vars, config_vars, aug_vars, retry_vars, pool_vars, rename_vars,
                   filter_class, filter_input, tag_resources, res, resource_sets, filter_error>>

\* create_set groups the resources by tags[key]
CreateSetReturns ==
    /\ filter_pc = "create_set"
    /\ \A k \in 1..Len(tag_resources) : ~lacks_key(tag_resources[k])
    /\ resource_sets' = create_set(tag_resources)
    /\ filter_pc' = "done"
    /\ UNCHANGED <<res_vars, limit_vars, get_vars, query_vars, send_vars, mail_vars, config_vars, aug_vars, retry_vars, pool_vars, rename_vars,
                   filter_class, filter_input, tag_resources, res, filter_error>>

\* tags[key] of a resource without the key
CreateSetRaises ==
    /\ filter_pc = "create_set"
    /\ \E k \in 1..Len(tag_resources) : lacks_key(tag_resources[k])
    /\ filter_error' = Some("KeyError")
    /\ filter_pc' = "done"
    /\ UNCHANGED <<res_vars, limit_vars, get_vars, query_vars, send_vars, mail_vars, config_vars, aug_vars, retry_vars, pool_vars, rename_vars,
                   filter_class, filter_input, tag_resources, res, resource_sets>>

FilterNext ==
    \/ FilterKeeps
    \/ FilterPops
    \/ FilterReturns
    \/ CreateSetReturns
    \/ CreateSetRaises

\* process(resources) of either action class, at filter_resources
FilterInit ==
    /\ universe = RunUniverse
    /\ policy \in Policies({NoFilters}, {}, {})
    /\ cache_enabled = FALSE
    /\ IdleCallers(universe)
    /\ IdleQuery
    /\ IdleLimit
    /\ IdleSend
    /\ IdleMail
    /\ IdleConfig
    /\ IdleAugment
    /\ IdleRetry
    /\ IdlePool
    /\ IdleRename
    /\ filter_pc = "filtering"
    /\ filter_class \in TagClasses
    /\ \E n \in 0..MaxResources : \E tags \in [1..n -> {None} \cup {Some(v) : v \in TagValues}] :
          filter_input = [i \in 1..n |-> [id |-> i, tag |-> tags[i]]]
    /\ tag_resources = filter_input
    /\ res = 0
    /\ resource_sets = {}
    /\ filter_error = None


(***************************************************************************)
(* MailerAzureQueueProcessor.run.  The storage queue holds, for each       *)
(* message, whether it is still there and its dequeue count; a fetch       *)
(* hands out some of the messages that are there (those visible), at most  *)
(* batch_size of them, and counts one more dequeue for each.               *)
(***************************************************************************)
MaxMessages == 2

batch_size == 16

max_message_retry == 3

\* what process_azure_queue_message can return: sendgrid_handler's True
\* or False, or None after an exception inside the delivery
ProcessResults == {"True", "False", "None"}

\* the truth value Python gives the outcome
handled(outcome) == outcome = "True"

deletes_handled(outcome, count) == handled(outcome)

\* process_azure_queue_message(m) or m.dequeue_count > self.max_message_retry
deletes(outcome, count) == handled(outcome) \/ count > max_message_retry

QueueMessage(i, count) == [id |-> i, dequeue_count |-> count]

Decision(m, outcome, gone) ==
    [id |-> m.id, dequeue_count |-> m.dequeue_count, handled |-> handled(outcome), deleted |-> gone]

\* the ids of a set as a list, smallest first
RECURSIVE Listed(_)
Listed(S) ==
    IF S = {} THEN <<>>
    ELSE LET least == CHOOSE i \in S : \A j \in S : i <= j
         IN  <<least>> \o Listed(S \ {least})

\* StorageUtilities.get_queue_messages(num_messages=batch_size)
MailFetch ==
    /\ mail_pc = "fetch"
    /\ \E S \in SUBSET {i \in DOMAIN queue : queue[i].present} :
          /\ Cardinality(S) <= batch_size
          /\ queue' = [i \in DOMAIN queue |->
                          IF i \in S
                          THEN [queue[i] EXCEPT !.dequeue_count = @ + 1]
                          ELSE queue[i]]
          /\ queue_messages' = [k \in 1..Cardinality(S) |->
                                   QueueMessage(Listed(S)[k], queue[Listed(S)[k]].dequeue_count + 1)]
    /\ message_index' = 1
    /\ mail_pc' = "while"
    /\ UNCHANGED <<res_vars, limit_vars, get_vars, query_vars, send_vars, config_vars, aug_vars, retry_vars, pool_vars, rename_vars, filter_vars,
                   decisions>>

\* the message is processed and deleted from the queue
MailDeletes ==
    /\ mail_pc = "while"
    /\ message_index <= Len(queue_messages)
    /\ LET queue_message == queue_messages[message_index]
       IN  \E outcome \in ProcessResults :
              /\ deletes(outcome, queue_message.dequeue_count)
              /\ queue' = [queue EXCEPT ![queue_message.id].present = FALSE]
              /\ decisions' = decisions \cup {Decision(queue_message, outcome, TRUE)}
    /\ message_index' = message_index + 1
    /\ UNCHANGED <<res_vars, limit_vars, get_vars, query_vars, send_vars, config_vars, aug_vars, retry_vars, pool_vars, rename_vars, filter_vars,
                   mail_pc, queue_messages>>

\* the message is processed and left on the queue
MailKeeps ==
    /\ mail_pc = "while"
    /\ message_index <= Len(queue_messages)
    /\ LET queue_message == queue_messages[message_index]
       IN  \E outcome \in ProcessResults :
              /\ ~deletes(outcome, queue_message.dequeue_count)
              /\ decisions' = decisions \cup {Decision(queue_message, outcome, FALSE)}
    /\ message_index' = message_index + 1
    /\ UNCHANGED <<res_vars, limit_vars, get_vars, query_vars, send_vars, config_vars, aug_vars, retry_vars, pool_vars, rename_vars, filter_vars,
                   mail_pc, queue, queue_messages>>

\* the batch is through: fetch again
MailRefetch ==
    /\ mail_pc = "while"
    /\ Len(queue_messages) > 0
    /\ message_index > Len(queue_messages)
    /\ mail_pc' = "fetch"
    /\ UNCHANGED <<res_vars, limit_vars, get_vars, query_vars, send_vars, config_vars, aug_vars, retry_vars, pool_vars, rename_vars, filter_vars,
                   queue, queue_messages, message_index, decisions>>

\* while len(queue_messages) > 0 fails: run() returns
MailExit ==
    /\ mail_pc = "while"
    /\ Len(queue_messages) = 0
    /\ mail_pc' = "done"
    /\ UNCHANGED <<res_vars, limit_vars, get_vars, query_vars, send_vars, config_vars, aug_vars, retry_vars, pool_vars, rename_vars, filter_vars,
                   queue, queue_messages, message_index, decisions>>

MailNext ==
    \/ MailFetch
    \/ MailDeletes
    \/ MailKeeps
    \/ MailRefetch
    \/ MailExit

\* run() starts; the messages on the queue were never fetched, or were
\* fetched max_message_retry times by earlier runs
MailInit ==
    /\ universe = RunUniverse
    /\ policy \in Policies({NoFilters}, {}, {})
    /\ cache_enabled = FALSE
    /\ IdleCallers(universe)
    /\ IdleQuery
    /\ IdleLimit
    /\ IdleSend
    /\ IdleConfig
    /\ IdleAugment
    /\ IdleRetry
    /\ IdlePool
    /\ IdleRename
    /\ IdleFilter
    /\ mail_pc = "fetch"
    /\ \E n \in 0..MaxMessages : \E counts \in [1..n -> {0, max_message_retry}] :
          queue = [i \in 1..n |-> [present |-> TRUE, dequeue_count |-> counts[i]]]
    /\ queue_messages = <<>>
    /\ message_index = 1
    /\ decisions = {}


(***************************************************************************)
(* custodian_azure_send_override(self, request, ...).  A response is       *)
(* [status_code, retry_after]: retry_after is the Retry-After header as a  *)
(* number of seconds, or None when the response has no such header.        *)
(***************************************************************************)
max_retries == 3

DEFAULT_MAX_RETRY_AFTER == 30

\* Retry codes from urllib3/util/retry.py
RetryCodes == {413, 429, 503}

StatusCodes == RetryCodes \cup {200, 500}

RetryAfters == {None, Some(0), Some(DEFAULT_MAX_RETRY_AFTER - 1), Some(DEFAULT_MAX_RETRY_AFTER)}

SendResponses == [status_code : StatusCodes, retry_after : RetryAfters]

\* retry_after is not None and retry_after < constants.DEFAULT_MAX_RETRY_AFTER
waits(rsp) == rsp.retry_after # None /\ Val(rsp.retry_after) < DEFAULT_MAX_RETRY_AFTER

\* while retries < max_retries: response = self.orig_send(...)
SendOrig ==
    /\ send_pc = "while"
    /\ send_retries < max_retries
    /\ \E rsp \in SendResponses :
          /\ send_response' = Some(rsp)
          /\ send_received' = Append(send_received, rsp)
    /\ send_pc' = "check"
    /\ UNCHANGED <<res_vars, limit_vars, get_vars, query_vars, config_vars, aug_vars, retry_vars, pool_vars, rename_vars, filter_vars, mail_vars,
                   send_retries, send_sleeps, send_result>>

\* a retriable status with a short Retry-After: sleep and go round again
SendRetries ==
    /\ send_pc = "check"
    /\ Val(send_response).status_code \in RetryCodes
    /\ waits(Val(send_response))
    /\ send_sleeps' = Append(send_sleeps, Val(Val(send_response).retry_after))
    /\ send_retries' = send_retries + 1
    /\ send_pc' = "while"
    /\ UNCHANGED <<res_vars, limit_vars, get_vars, query_vars, config_vars, aug_vars, retry_vars, pool_vars, rename_vars, filter_vars, mail_vars,
                   send_response, send_received, send_result>>

\* a retriable status with a Retry-After that is too long: the error is
\* logged and the loop is left
SendGivesUp ==
    /\ send_pc = "check"
    /\ Val(send_response).status_code \in RetryCodes
    /\ ~waits(Val(send_response))
    /\ Val(send_response).retry_after # None
    /\ send_pc' = "break"
    /\ UNCHANGED <<res_vars, limit_vars, get_vars, query_vars, config_vars, aug_vars, retry_vars, pool_vars, rename_vars, filter_vars, mail_vars,
                   send_retries, send_response, send_received, send_sleeps, send_result>>

\* a retriable status without Retry-After: the error message formats
\* retry_after, which is None, with %i
SendLogRaises ==
    /\ send_pc = "check"
    /\ Val(send_response).status_code \in RetryCodes
    /\ ~waits(Val(send_response))
    /\ Val(send_response).retry_after = None
    /\ send_result' = Raise("TypeError")
    /\ send_pc' = "done"
    /\ UNCHANGED <<res_vars, limit_vars, get_vars, query_vars, config_vars, aug_vars, retry_vars, pool_vars, rename_vars, filter_vars, mail_vars,
                   send_retries, send_response, send_received, send_sleeps>>

\* any other status: the loop is left
SendBreaks ==
    /\ send_pc = "check"
    /\ Val(send_response).status_code \notin RetryCodes
    /\ send_pc' = "break"
    /\ UNCHANGED <<res_vars, limit_vars, get_vars, query_vars, config_vars, aug_vars, retry_vars, pool_vars, rename_vars, filter_vars, mail_vars,
                   send_retries, send_response, send_received, send_sleeps, send_result>>

\* return response
SendReturns ==
    /\ \/ send_pc = "break"
       \/ send_pc = "while" /\ ~(send_retries < max_retries)
    /\ send_result' = Return(Val(send_response))
    /\ send_pc' = "done"
    /\ UNCHANGED <<res_vars, limit_vars, get_vars, query_vars, config_vars, aug_vars, retry_vars, pool_vars, rename_vars, filter_vars, mail_vars,
                   send_retries, send_response, send_received, send_sleeps>>

SendNext ==
    \/ SendOrig
    \/ SendRetries
    \/ SendGivesUp
    \/ SendLogRaises
    \/ SendBreaks
    \/ SendReturns

\* one call of the override
SendInit ==
    /\ universe = RunUniverse
    /\ policy \in Policies({NoFilters}, {}, {})
    /\ cache_enabled = FALSE
    /\ IdleCallers(universe)
    /\ IdleQuery
    /\ IdleLimit
    /\ IdleConfig
    /\ IdleAugment
    /\ IdleRetry
    /\ IdlePool
    /\ IdleRename
    /\ IdleFilter
    /\ IdleMail
    /\ send_pc = "while"
    /\ send_retries = 0
    /\ send_response = None
    /\ send_received = <<>>
    /\ send_sleeps = <<>>
    /\ send_result = Running

IdleMore ==
    /\ IdleConfig
    /\ IdleAugment
    /\ IdleRetry
    /\ IdlePool
    /\ IdleRename
    /\ IdleFilter
    /\ IdleMail
    /\ IdleSend

\* how many identities the discovered index holds
Populations == {0, 1, ChunkSize, ChunkSize + 1, 2 * ChunkSize + 1}

\* the identities whose history varies; every other one has one revision
Boundary == {1, ChunkSize + 1}

DiscoveredHistories ==
    {[i \in 1..n |-> History(IF i \in Boundary THEN kind[i] ELSE "one", i)] :
        n \in Populations, kind \in [Boundary -> HistoryKinds]}

AskedHistories == {[i \in Ids |-> History(kind[i], i)] : kind \in [Ids -> HistoryKinds]}

\* one call of ConfigSource.get_resources or ConfigSource.resources
ConfigInit ==
    /\ universe = RunUniverse
    /\ policy \in Policies({NoFilters}, {}, {})
    /\ cache_enabled = FALSE
    /\ IdleCallers(universe)
    /\ IdleQuery
    /\ IdleLimit
    /\ IdleSend
    /\ IdleMail
    /\ IdleFilter
    /\ IdleRename
    /\ IdlePool
    /\ IdleAugment
    /\ IdleRetry
    /\ cfg_op \in {"get_resources", "resources"}
    /\ cfg_pc = cfg_op
    /\ histories \in IF cfg_op = "resources" THEN DiscoveredHistories ELSE AskedHistories
    /\ ids_arg \in IF cfg_op = "resources" THEN {<<>>} ELSE IdentityLists
    /\ resource_ids = <<>>
    /\ chunk_index = 1
    /\ future = NoFuture
    /\ in_flight = {}
    /\ cfg_results = <<>>
    /\ logged = 0
    /\ cfg_result = Running

Init ==
    /\ universe = RunUniverse
    /\ policy \in Policies(universe.datas, {1}, {0, 50})
    /\ cache_enabled \in BOOLEAN
    /\ IdleCallers(universe)
    /\ IdleQuery
    /\ IdleLimit
    /\ IdleMore

KeyInit ==
    /\ universe = KeyUniverse
    /\ policy \in Policies(universe.datas, {}, {})
    /\ cache_enabled = TRUE
    /\ IdleCallers(universe)
    /\ IdleQuery
    /\ IdleLimit
    /\ IdleMore

RaceInit ==
    /\ universe = RaceUniverse
    /\ policy \in Policies({NoFilters}, {}, {})
    /\ cache_enabled = TRUE
    /\ IdleCallers(universe)
    /\ IdleQuery
    /\ IdleLimit
    /\ IdleMore

\* one call of ResourceQuery.get, ResourceQuery.filter or
\* ChildResourceQuery.filter
QueryInit ==
    /\ universe = RunUniverse
    /\ policy \in Policies({NoFilters}, {}, {})
    /\ cache_enabled = FALSE
    /\ IdleCallers(universe)
    /\ IdleLimit
    /\ IdleMore
    /\ rq_op \in {"get", "filter", "child_filter"}
    /\ rq_pc = rq_op
    /\ resource_type \in
          IF rq_op = "get" THEN Descriptors(ServerSideFilters, {FALSE}, {FALSE})
          ELSE IF rq_op = "filter" THEN Descriptors({<<None, "none">>}, {FALSE}, {FALSE})
          ELSE Descriptors({<<None, "none">>}, BOOLEAN, BOOLEAN)
    /\ identities \in IF rq_op = "get" THEN IdentityLists ELSE {<<>>}
    /\ caller_params \in
          IF rq_op = "get" THEN {{}}
          ELSE IF rq_op = "filter" THEN CallerParams ELSE ChildCallerParams
    /\ parent_ids \in IF rq_op = "child_filter" THEN ParentLists ELSE {<<>>}
    /\ params = caller_params
    /\ client_filter = FALSE
    /\ rq_resources = None
    /\ results = <<>>
    /\ parent_index = 1
    /\ enum_calls = <<>>
    /\ rq_result = Running

GetInit ==
    /\ universe = GetUniverse
    /\ policy \in Policies({NoFilters}, {}, {})
    /\ cache_enabled \in BOOLEAN
    /\ IdleCallers(universe)
    /\ IdleQuery
    /\ IdleLimit
    /\ IdleMore

LimitInit ==
    /\ universe = RunUniverse
    /\ policy \in Policies({NoFilters}, Limits, Percents)
    /\ cache_enabled = FALSE
    /\ IdleCallers(universe)
    /\ IdleQuery
    /\ IdleMore
    /\ population_count \in 0..MaxPopulation
    /\ selection_count \in 0..population_count
    /\ limit_result = <<>>

Spec == Init /\ [][Next]_vars

KeySpec == KeyInit /\ [][Next]_vars

RaceSpec == RaceInit /\ [][Next]_vars

GetSpec == GetInit /\ [][GetNext]_vars

QuerySpec == QueryInit /\ [][QueryNext]_vars

LimitSpec == LimitInit /\ [][LimitNext]_vars

ConfigSpec == ConfigInit /\ [][ConfigNext]_vars

AugmentSpec == AugmentInit /\ [][AugmentNext]_vars

RetrySpec == RetryInit /\ [][RetryNext]_vars

SendSpec == SendInit /\ [][SendNext]_vars

MailSpec == MailInit /\ [][MailNext]_vars

\* run() is not suspended for ever
MailFairSpec == MailSpec /\ WF_vars(MailNext)

FilterSpec == FilterInit /\ [][FilterNext]_vars

RenameSpec == RenameInit /\ [][RenameNext]_vars

PoolSpec == PoolInit /\ [][PoolNext]_vars

\* the pool runs what is submitted and the caller's thread keeps going
ConfigFairSpec == ConfigSpec /\ WF_vars(ConfigNext)

(***************************************************************************)
(* Properties of the breaker on its own (LimitSpec).                       *)
(***************************************************************************)
LimitOutcome == limit_result[1]

MaxPercentError(percent) ==
    [raised |-> TRUE, kind |-> "max-percent", limit |-> percent,
     selection_count |-> selection_count, population_count |-> population_count]

\* C1: with an integer max_resources, a selection count greater than it
\* raises ResourceLimitExceeded "max-resources" carrying the limit and both
\* counts; a selection count within it never raises "max-resources".
C1_MaxResources ==
    limit_result # <<>> /\ policy.max_resources # None =>
        LET limit == Val(policy.max_resources)
        IN  IF selection_count > limit
            THEN LimitOutcome =
                    [raised |-> TRUE, kind |-> "max-resources", limit |-> limit,
                     selection_count |-> selection_count,
                     population_count |-> population_count]
            ELSE ~(LimitOutcome.raised /\ LimitOutcome.kind = "max-resources")

\* population 100, selection 11, max_resources 10: raised with all four
C1_Witness ==
    /\ limit_result # <<>>
    /\ policy.max_resources = Some(10)
    /\ selection_count = 11
    /\ population_count = 100
    /\ LimitOutcome.raised
    /\ LimitOutcome.kind = "max-resources"
    /\ LimitOutcome.limit = 10

\* C2: with only max_resources_percent = P set, P in 1..100, the call
\* raises "max-percent" exactly when selection > population * P / 100.
C2_PercentExact ==
    /\ limit_result # <<>>
    /\ policy.max_resources = None
    /\ policy.max_resources_percent # None
    /\ Val(policy.max_resources_percent) \in 1..100
    => LET percent == Val(policy.max_resources_percent)
       IN  IF selection_count * 100 > population_count * percent
           THEN LimitOutcome = MaxPercentError(percent)
           ELSE LimitOutcome = Returned

\* C3: with both limits set, the call raises exactly when
\* selection > max_resources or selection > population * percent / 100.
C3_EitherLimit ==
    /\ limit_result # <<>>
    /\ policy.max_resources # None
    /\ policy.max_resources_percent # None
    => (LimitOutcome.raised <=>
            \/ selection_count > Val(policy.max_resources)
            \/ selection_count * 100 > population_count * Val(policy.max_resources_percent))

\* C4: with max_resources_percent = 0 and no absolute limit, a selection of
\* at least one resource raises "max-percent".
C4_ZeroPercent ==
    /\ limit_result # <<>>
    /\ policy.max_resources = None
    /\ policy.max_resources_percent = Some(0)
    /\ selection_count >= 1
    => LimitOutcome = MaxPercentError(0)

(***************************************************************************)
(* Properties of resources() (Spec, KeySpec).                              *)
(***************************************************************************)
Reached(c, event) == \E i \in 1..Len(trace[c]) : trace[c][i] = event

IsPrefix(s, t) == Len(s) <= Len(t) /\ SubSeq(t, 1, Len(s)) = s

LimitError(r) ==
    /\ r.status = "raised"
    /\ r.exc.kind \in {"max-resources", "max-percent"}

NoLimits == policy.max_resources = None /\ policy.max_resources_percent = None

IsTopLevel(c) == self[c].data = policy.data

Kept(c, rs) == SelectSeq(rs, LAMBDA r : r.id \in self[c].data.filters)

\* C5: when the policy declares neither limit, the breaker raises for no
\* selection and population counts, and a resources() call that got as far
\* as filtering returns the selection.
C5_NoLimits ==
    NoLimits =>
        \A c \in Procs :
            /\ pc[c] = "check" =>
                  \A s, n \in 0..MaxPopulation :
                      check_resource_limit(policy, s, n) = Returned
            /\ pc[c] = "done" /\ Reached(c, "filter") =>
                  result[c] = Return(Val(resources[c]))

\* the policy's own manager, no limits, returns a selection of two
C5_Witness ==
    /\ NoLimits
    /\ pc[1] = "done"
    /\ IsTopLevel(1)
    /\ Reached(1, "check_resource_limit")
    /\ result[1].status = "returned"
    /\ Len(result[1].value) = 2

\* C6: the breaker is evaluated only by a manager whose data equals the
\* policy's data.  A limit error is raised only by such a manager, and only
\* as the step right after filtering; a manager with other data returns its
\* selection whatever the counts; and when the counts of the policy's own
\* manager breach a limit the call raises instead of returning.
C6_TopLevelOnly ==
    \A c \in Procs :
        /\ LimitError(result[c]) =>
              /\ IsTopLevel(c)
              /\ pc[c] = "done"
              /\ Len(trace[c]) >= 2
              /\ SubSeq(trace[c], Len(trace[c]) - 1, Len(trace[c]))
                    = <<"filter", "check_resource_limit">>
        /\ pc[c] = "done" /\ Reached(c, "filter") /\ ~IsTopLevel(c) =>
              /\ result[c] = Return(Val(resources[c]))
              /\ ~Reached(c, "check_resource_limit")
        /\ pc[c] = "done" /\ Reached(c, "filter") /\ IsTopLevel(c)
              /\ check_resource_limit(policy, Len(Val(resources[c])),
                                      resource_count[c]).raised =>
              LimitError(result[c])

\* a nested lookup returns two resources under a policy whose limit is one
C6_Witness ==
    /\ pc[1] = "done"
    /\ ~IsTopLevel(1)
    /\ policy.max_resources = Some(1)
    /\ result[1].status = "returned"
    /\ Len(result[1].value) = 2

\* the cache held the call's key before the call saved anything
HeldBefore(c) ==
    /\ cache_enabled
    /\ cache_key[c] \in DOMAIN cache
    /\ ~Reached(c, "cache.save")

Looked == IF cache_enabled THEN <<"cache.get">> ELSE <<>>

\* C7: when caching is enabled and the cache holds the key, the call makes
\* no provider call, neither enumerates nor augments, and filters the cached
\* collection; otherwise it enumerates, augments, saves and filters, in
\* that order.  So a later call with the same key makes no provider call
\* and filters the population the first one saved.
C7_CacheProtocol ==
    \A c \in Procs :
        pc[c] \in {"fetch", "augment", "save", "filter", "check", "done"} =>
            IF HeldBefore(c)
            THEN /\ served[c] # None
                 /\ provider_calls[c] = 0
                 /\ IsPrefix(trace[c], <<"cache.get", "filter", "check_resource_limit">>)
                 /\ pc[c] = "filter" => resources[c] = Some(cache[cache_key[c]].value)
                 /\ Reached(c, "filter") =>
                       /\ resource_count[c] = Len(cache[cache_key[c]].value)
                       /\ Val(resources[c]) = Kept(c, cache[cache_key[c]].value)
            ELSE /\ served[c] = None
                 /\ IsPrefix(trace[c],
                        Looked \o <<"source.resources", "augment", "cache.save",
                                    "filter", "check_resource_limit">>)

\* a second call finds the two records the first one saved and returns
\* them without a provider call
C7_Witness ==
    /\ ncalls = 2
    /\ pc[1] = "done"
    /\ served[1] # None
    /\ provider_calls[1] = 0
    /\ result[1].status = "returned"
    /\ Len(cache[cache_key[1]].value) = 2

C8_State ==
    /\ \A k \in DOMAIN cache :
          \A i \in 1..Len(cache[k].value) : cache[k].value[i].detail
    /\ \A c \in Procs :
          /\ Reached(c, "cache.save") =>
                IsPrefix(Looked \o <<"source.resources", "augment", "cache.save">>, trace[c])
          /\ result[c] = Raise(ClientError) => ~Reached(c, "cache.save")

C8_Step ==
    \A c \in Procs :
        /\ result[c] = Running /\ result'[c] = Raise(ClientError) => cache' = cache
        /\ pc[c] \in {"fetch", "augment"} => cache' = cache

\* C8: every cache entry holds a fully augmented collection: a save comes
\* only after the augmentation of the whole collection has returned, and a
\* call whose enumeration or augmentation raises writes nothing and leaves
\* the cache as it was.
C8_SaveAfterAugment == []C8_State /\ [][C8_Step]_vars

\* the augmentation of a two-record collection raised on the second record
C8_Witness ==
    /\ result[1] = Raise(ClientError)
    /\ resources[1] # None
    /\ Len(Val(resources[1])) = 2
    /\ Val(resources[1])[1].detail
    /\ ~Val(resources[1])[2].detail
    /\ cache_key[1] \notin DOMAIN cache

\* C9: the population count given to the breaker is the size of the
\* augmented collection before filtering (the one read from or saved to the
\* cache) and the selection count the size after filtering, on a hit and on
\* a miss; what the cache holds is the collection before filtering.
C9_Counts ==
    \A c \in Procs :
        Reached(c, "filter") =>
            LET population == cache[cache_key[c]].value
                selection  == Val(resources[c])
            IN  /\ resource_count[c] = Len(population)
                /\ selection = Kept(c, population)
                /\ LimitError(result[c]) =>
                      /\ result[c].exc.population_count = Len(population)
                      /\ result[c].exc.selection_count = Len(selection)
                /\ pc[c] = "done" /\ IsTopLevel(c) =>
                      (LimitError(result[c]) <=>
                          check_resource_limit(policy, Len(selection),
                                               Len(population)).raised)

\* on a cache hit, one of two resources selected under a 50 percent limit
C9_Witness ==
    /\ pc[1] = "done"
    /\ served[1] # None
    /\ IsTopLevel(1)
    /\ policy.max_resources_percent = Some(50)
    /\ resource_count[1] = 2
    /\ result[1].status = "returned"
    /\ Len(result[1].value) = 1

\* C10: a call is served from the cache only by an entry that a call with
\* the same account, region, resource kind and query wrote, and a call is
\* served whenever such an entry exists.
C10_KeyComponents ==
    \A c \in Procs :
        /\ served[c] # None => Val(served[c]) = called[c]
        /\ pc[c] \in {"fetch", "augment", "save"} =>
              \A k \in DOMAIN cache : cache[k].writer # called[c]

\* a call in another region than the one that wrote the only entry misses
C10_Witness ==
    /\ pc[1] = "fetch"
    /\ \E k \in DOMAIN cache :
          /\ cache[k].writer.region # called[1].region
          /\ cache[k].writer.account = called[1].account
          /\ cache[k].writer.resource = called[1].resource
          /\ cache[k].writer.q = called[1].q

(***************************************************************************)
(* Two callers of resources() at once (RaceSpec).                          *)
(***************************************************************************)
\* the collection caller c handed to its latest save
OwnSave(c) ==
    LET by == SelectSeq(saves, LAMBDA e : e.caller = c)
    IN  by[Len(by)].value

MissedTogether(c, d) ==
    /\ c # d
    /\ pc[c] = "done" /\ pc[d] = "done"
    /\ Reached(c, "cache.save") /\ Reached(d, "cache.save")
    /\ cache_key[c] = cache_key[d]

\* C11: two callers that miss on the same key at once each enumerate,
\* augment and save on their own; once both have finished the cache entry
\* is the collection of the later of the two saves, and each caller's
\* selection is its own filters applied to the collection it fetched itself.
C11_LastWriteWins ==
    \A c, d \in Procs :
        MissedTogether(c, d) =>
            /\ IsPrefix(<<"cache.get", "source.resources", "augment", "cache.save">>, trace[c])
            /\ provider_calls[c] >= 1
            /\ saves[Len(saves)].caller \in {c, d}
            /\ cache[cache_key[c]].value = saves[Len(saves)].value
            /\ Augmented(OwnSave(c))
            /\ result[c] = Return(Kept(c, OwnSave(c)))
            /\ resource_count[c] = Len(OwnSave(c))

\* caller 1 fetched one record and caller 2 two; caller 2 saved first and
\* caller 1 last, so the entry holds one record while caller 2 returns two
C11_Witness ==
    /\ MissedTogether(1, 2)
    /\ saves[Len(saves)].caller = 1
    /\ Len(OwnSave(1)) = 1
    /\ Len(OwnSave(2)) = 2
    /\ Len(cache[cache_key[1]].value) = 1
    /\ result[2].status = "returned"
    /\ Len(result[2].value) = 2

(***************************************************************************)
(* Properties of get_resources() (GetSpec).                                *)
(***************************************************************************)
\* the call's cache flag is set, caching is enabled and the cache holds the
\* entry of the manager's default query
HeldDefault(c) ==
    /\ cache_enabled
    /\ get_args[c].cache
    /\ [account |-> self[c].account_id, region |-> self[c].region,
        resource |-> self[c].resource, q |-> None] \in DOMAIN cache

CachedDefault(c) ==
    cache[[account |-> self[c].account_id, region |-> self[c].region,
           resource |-> self[c].resource, q |-> None]].value

Delegated(c) == IF cache_enabled /\ get_args[c].cache THEN <<"cache.get">> ELSE <<>>

\* C12: get_resources(ids) with its cache flag set, caching enabled and a
\* cached collection for the default query returns exactly the cached
\* records whose id is in ids, an empty list when none is, and calls neither
\* the source nor the provider; in every other case it calls the source's
\* get and then, unless augment is False, augments what that returned.
C12_CachedIds ==
    \A c \in Procs :
        pc[c] \in {"get_source", "get_augment", "got"} =>
            IF HeldDefault(c)
            THEN /\ pc[c] = "got"
                 /\ result[c] =
                       Return(SelectSeq(CachedDefault(c), LAMBDA r : r.id \in get_args[c].ids))
                 /\ provider_calls[c] = 0
                 /\ trace[c] = <<"cache.get">>
            ELSE /\ IsPrefix(trace[c], Delegated(c) \o <<"source.get_resources", "augment">>)
                 /\ pc[c] = "got" =>
                       /\ Reached(c, "source.get_resources")
                       /\ fault[c] = None =>
                             /\ result[c] = Return(Val(resources[c]))
                             /\ Reached(c, "augment") <=> get_args[c].augment
                             /\ get_args[c].augment => Augmented(Val(resources[c]))

\* the cache holds only record 1 for the default query and ids is {2}:
\* an empty list comes back and the source is not called
C12_Witness ==
    /\ pc[1] = "got"
    /\ HeldDefault(1)
    /\ Len(CachedDefault(1)) = 1
    /\ CachedDefault(1)[1].id = 1
    /\ get_args[1].ids = {2}
    /\ result[1] = Return(<<>>)
    /\ provider_calls[1] = 0

C13_State ==
    \A c \in Procs :
        pc[c] = "got" /\ fault[c] # None =>
            IF Val(fault[c]).kind = "ClientError"
            THEN result[c] = Return(<<>>)
            ELSE result[c] = Raise(Val(fault[c]))

C13_Step ==
    \A c \in Procs :
        pc[c] \in {"get_cached", "get_source", "get_augment"} =>
            cache' = cache /\ saves' = saves

\* C13: a ClientError raised by the source lookup or by the augmentation
\* inside get_resources is not propagated, the call returns an empty list;
\* any other exception propagates; and no step of get_resources writes the
\* cache.
C13_ClientErrorDegrades == []C13_State /\ [][C13_Step]_vars

\* the augmentation raised ClientError after the source returned two
\* records: an empty list comes back and the cache is still empty
C13_Witness ==
    /\ pc[1] = "got"
    /\ fault[1] = Some(ClientError)
    /\ Reached(1, "augment")
    /\ Len(Val(resources[1])) = 2
    /\ result[1] = Return(<<>>)
    /\ cache = EmptyCache

(***************************************************************************)
(* Properties of ResourceQuery and ChildResourceQuery (QuerySpec).         *)
(***************************************************************************)
ScalarFilter == resource_type.filter_name # None /\ resource_type.filter_type = "scalar"

ListFilter == resource_type.filter_name # None /\ resource_type.filter_type = "list"

\* an item's identity: the item itself when it is a plain string
ItemId(r) == IF "str" \in DOMAIN r THEN r.str ELSE r.id

Requested == {identities[i] : i \in 1..Len(identities)}

\* the items the enumeration call found, page after page
Enumerated(call) == Concat(call.answer)

\* C14: get on a descriptor with a scalar server-side filter raises an
\* assertion error when the identities asked for are not exactly one, having
\* issued no enumeration call; with exactly one identity it issues one
\* enumeration whose filter value is that identity.
C14_ScalarAssert ==
    rq_op = "get" /\ ScalarFilter /\ rq_pc # "get" =>
        IF Len(identities) # 1
        THEN /\ rq_pc = "done"
             /\ rq_result = Raise(AssertionError)
             /\ enum_calls = <<>>
        ELSE /\ rq_result.status # "raised"
             /\ rq_pc = "done" =>
                   /\ Len(enum_calls) = 1
                   /\ <<FilterKey, identities[1]>> \in enum_calls[1].params

\* two identities against a scalar filter: raised, nothing enumerated
C14_Witness ==
    /\ rq_op = "get"
    /\ ScalarFilter
    /\ Len(identities) = 2
    /\ rq_pc = "done"
    /\ rq_result = Raise(AssertionError)
    /\ enum_calls = <<>>

\* C15: get on a descriptor with a list-valued server-side filter returns
\* only items whose identity is among the identities asked for, whatever
\* the enumeration answers.
C15_ListOnlyRequested ==
    rq_op = "get" /\ ListFilter /\ rq_pc = "done" =>
        /\ rq_result.status = "returned"
        /\ \A i \in 1..Len(Val(rq_result.value)) :
              ItemId(Val(rq_result.value)[i]) \in Requested

\* C16: get on a descriptor without a server-side filter enumerates once
\* with no parameter of the caller and returns, in order, exactly the
\* enumerated items whose identity (the item itself for plain strings, else
\* its id field) is among the identities asked for.
C16_ClientSide ==
    rq_op = "get" /\ resource_type.filter_name = None /\ rq_pc = "done" =>
        /\ Len(enum_calls) = 1
        /\ enum_calls[1].params = resource_type.extra_args
        /\ rq_result =
              Return(Some(SelectSeq(Enumerated(enum_calls[1]),
                                    LAMBDA r : ItemId(r) \in Requested)))

\* two plain strings enumerated over two pages, one of them asked for
C16_Witness ==
    /\ rq_op = "get"
    /\ resource_type.filter_name = None
    /\ rq_pc = "done"
    /\ identities = <<2>>
    /\ Len(enum_calls[1].answer) = 2
    /\ Enumerated(enum_calls[1]) = <<[str |-> 1], [str |-> 2]>>
    /\ rq_result = Return(Some(<<[str |-> 2]>>))

\* C17: in ResourceQuery.filter and ChildResourceQuery.filter every
\* parameter of the caller reaches the provider with the caller's value, and
\* the descriptor's extra parameters are added under the keys the caller
\* did not give.
C17_CallerWins ==
    rq_op \in {"filter", "child_filter"} =>
        \A i \in 1..Len(enum_calls) :
            /\ caller_params \subseteq enum_calls[i].params
            /\ \A kv \in resource_type.extra_args :
                  kv[1] \notin Keys(caller_params) => kv \in enum_calls[i].params

\* C18: ResourceQuery.filter returns an empty sequence, not None and not
\* an error, when the result path finds nothing in the provider's answer,
\* whether the call was paginated or not.
C18_EmptyNotNone ==
    /\ rq_op = "filter"
    /\ rq_pc = "done"
    /\ \A i \in 1..Len(enum_calls[1].answer) : enum_calls[1].answer[i] = None
    => rq_result = Return(Some(<<>>))

\* a paginated call of two pages in which the path finds nothing
C18_Witness ==
    /\ rq_op = "filter"
    /\ rq_pc = "done"
    /\ enum_calls[1].answer = <<None, None>>
    /\ rq_result = Return(Some(<<>>))

\* C19: ChildResourceQuery.filter called without the parent key, when the
\* parent manager holds no parent, returns an empty sequence and issues no
\* enumeration call.
C19_NoParents ==
    /\ rq_op = "child_filter"
    /\ ParentKey \notin Keys(caller_params)
    /\ parent_ids = <<>>
    /\ rq_pc # "child_filter"
    => /\ rq_pc = "done"
       /\ rq_result = Return(Some(<<>>))
       /\ enum_calls = <<>>

\* no parents, a caller parameter and descriptor extras: empty, no call
C19_Witness ==
    /\ rq_op = "child_filter"
    /\ caller_params = {<<ExtraKey, CallerValue>>}
    /\ resource_type.extra_args # {}
    /\ parent_ids = <<>>
    /\ rq_pc = "done"
    /\ rq_result = Return(Some(<<>>))
    /\ enum_calls = <<>>

\* C20: ChildResourceQuery.filter called with the parent key among the
\* caller's parameters issues exactly one enumeration call, with the
\* caller's parameters, and none per parent, however many parents there are.
C20_DirectEnumeration ==
    /\ rq_op = "child_filter"
    /\ ParentKey \in Keys(caller_params)
    /\ rq_pc # "child_filter"
    => /\ rq_pc = "done"
       /\ Len(enum_calls) = 1
       /\ caller_params \subseteq enum_calls[1].params
       /\ Keys(enum_calls[1].params) \subseteq Keys(caller_params) \cup Keys(resource_type.extra_args)

RECURSIVE AllEnumerated(_)
\* the items the enumeration calls found, call after call
AllEnumerated(calls) ==
    IF calls = <<>> THEN <<>> ELSE Enumerated(calls[1]) \o AllEnumerated(Tail(calls))

RECURSIVE Producers(_, _)
\* for every item the calls found, the parent whose call found it
Producers(calls, parents) ==
    IF calls = <<>> THEN <<>>
    ELSE [i \in 1..Len(Enumerated(calls[1])) |-> parents[1]]
            \o Producers(Tail(calls), Tail(parents))

\* the record of a result element: the second of a (parent-id, record) pair
ResultRecord(e) == IF resource_type.capture_parent_id THEN e[2] ELSE e

FanOut ==
    /\ rq_op = "child_filter"
    /\ ParentKey \notin Keys(caller_params)
    /\ Len(parent_ids) >= 1
    /\ rq_pc = "done"

\* C21: the fan-out over n >= 1 parents without a parent key of the caller
\* issues n enumeration calls, the i-th with the caller's parameters plus
\* the parent key bound to the i-th parent, and returns the per-parent
\* results concatenated in that order.
C21_FanOutCalls ==
    FanOut =>
        /\ Len(enum_calls) = Len(parent_ids)
        /\ \A i \in 1..Len(enum_calls) :
              /\ caller_params \subseteq enum_calls[i].params
              /\ <<ParentKey, parent_ids[i]>> \in enum_calls[i].params
        /\ rq_result.status = "returned"
        /\ Len(Val(rq_result.value)) = Len(AllEnumerated(enum_calls))
        /\ \A j \in 1..Len(Val(rq_result.value)) :
              ResultRecord(Val(rq_result.value)[j]).id = AllEnumerated(enum_calls)[j].id

\* C22: in a fan-out that returns, with parent annotation every returned
\* record carries as its parent id the parent whose enumeration call found
\* it; with capture_parent_id every element is the pair of that parent id
\* and the record, and without it the elements are the records themselves.
C22_Annotation ==
    FanOut /\ rq_result.status = "returned" =>
        LET value == Val(rq_result.value)
            from  == Producers(enum_calls, parent_ids)
        IN  /\ Len(value) = Len(from)
            /\ \A j \in 1..Len(value) :
                  /\ resource_type.capture_parent_id =>
                        Len(value[j]) = 2 /\ value[j][1] = from[j]
                  /\ ~resource_type.capture_parent_id =>
                        value[j].id = AllEnumerated(enum_calls)[j].id
                  /\ resource_type.annotate_parent =>
                        ResultRecord(value[j]).parent = from[j]

\* two parents, each with one child, annotated and paired with its parent
C22_Witness ==
    /\ FanOut
    /\ resource_type.annotate_parent
    /\ resource_type.capture_parent_id
    /\ parent_ids = <<1, 2>>
    /\ rq_result.status = "returned"
    /\ Len(Val(rq_result.value)) = 2
    /\ Val(rq_result.value)[2][1] = 2
    /\ Val(rq_result.value)[2][2].parent = 2


(***************************************************************************)
(* ConfigSource.                                                           *)
(***************************************************************************)
Answers1(i) == histories[i].items # None /\ Val(histories[i].items) # <<>>

Newest(i) == Val(histories[i].items)[1].configuration

Built(i) == IF Newest(i).is_string THEN Newest(i).value.json ELSE Newest(i).value

HasHistory(i) == Answers1(i)

HasSnapshot(i) == Answers1(i) /\ Built(i) # EmptyDict

BuiltFrom(ids) == [k \in 1..Len(ids) |-> Built(ids[k])]

AskedDone ==
    /\ cfg_op = "get_resources"
    /\ cfg_pc = "done"
    /\ \A k \in 1..Len(ids_arg) : ~histories[ids_arg[k]].raises

\* C23, as claimed: get_resources(ids) omits an identity whose history is
\* missing or empty without raising, and every identity with a non-empty
\* history contributes exactly one record built from its most recent
\* revision, in the order of ids.
C23_EveryHistoryOneRecord ==
    AskedDone => cfg_result = Return(BuiltFrom(SelectSeq(ids_arg, HasHistory)))

\* C23, amended: get_resources(ids) omits, without raising, an identity
\* whose history is missing or empty and one whose most recent revision
\* carries an empty configuration; every other identity contributes exactly
\* one record built from its most recent revision, in the order of ids.
C23_EverySnapshotOneRecord ==
    AskedDone => cfg_result = Return(BuiltFrom(SelectSeq(ids_arg, HasSnapshot)))

C23_Witness ==
    /\ AskedDone
    /\ Len(ids_arg) = 2
    /\ ~HasHistory(ids_arg[1])
    /\ HasSnapshot(ids_arg[2])
    /\ Len(Val(histories[ids_arg[2]].items)) = 2
    /\ cfg_result = Return(<<Snapshot(ids_arg[2], 2)>>)

ChunkOf(i) == (i - 1) \div ChunkSize + 1

ChunkRaises(c) == \E i \in 1..Len(histories) : ChunkOf(i) = c /\ histories[i].raises

InCleanChunk(i) == ~ChunkRaises(ChunkOf(i)) /\ HasSnapshot(i)

\* C24: when the lookup of one chunk raises, resources() logs the failure,
\* does not abort, and returns the records of all the other chunks.
C24_FailedChunkSkipped ==
    (/\ cfg_op = "resources"
     /\ cfg_pc = "done"
     /\ \E c \in 1..Len(chunks(resource_ids, ChunkSize)) : ChunkRaises(c))
    => /\ logged >= 1
       /\ cfg_result = Return(BuiltFrom(SelectSeq(resource_ids, InCleanChunk)))

\* at no time does the pool hold more than one chunk lookup
AtMostOneInFlight == Cardinality(in_flight) <= 1

\* C25: resources() resolves the identities in chunks of at most 50 and
\* fans them out concurrently: with more than one chunk, two chunk lookups
\* come to be in flight at the same time.
C25_TwoInFlight ==
    (cfg_op = "resources" /\ Len(histories) > ChunkSize)
    => <>(Cardinality(in_flight) >= 2)


(***************************************************************************)
(* Augmentation.                                                           *)
(***************************************************************************)
Faulted(kind) == {k \in 1..Len(aug_input) : aug_faults[ItemOf(aug_input[k])] = kind}

Answered(r) == aug_faults[ItemOf(r)] = "none"

WithDetail(seq) == [k \in 1..Len(seq) |-> [id |-> ItemOf(seq[k]), detail |-> TRUE]]

\* C26: scalar augmentation: when the detail call for item X raises a
\* not-found fault, the output holds every other input item with its
\* detail data and omits exactly X; the fault does not reach the caller.
C26_NotFoundDropped ==
    (/\ aug_op = "scalar"
     /\ aug_pc = "done"
     /\ Faulted("not_found") # {}
     /\ Faulted("other") = {})
    => aug_result = Return(WithDetail(SelectSeq(aug_input, Answered)))

WithTags(seq) ==
    [k \in 1..Len(seq) |->
        [id |-> seq[k].id, status |-> seq[k].status,
         Tags |-> Some(<<[Key |-> "owner", Value |-> seq[k].id]>>)]]

\* C27: RDSCluster.augment omits a cluster whose tag lookup raises
\* DBClusterNotFoundFault and returns every other cluster, in input order,
\* with 'Tags' set from its own tag list and its other fields unchanged;
\* the not-found fault never aborts the batch.
C27_ClusterTags ==
    (aug_op = "rds_tags" /\ aug_pc = "done")
    => /\ Faulted("other") = {}
          => aug_result = Return(WithTags(SelectSeq(aug_input, Answered)))
       /\ aug_result.status = "raised" => aug_result.exc # DBClusterNotFoundFault

C27_Witness ==
    /\ aug_op = "rds_tags"
    /\ aug_pc = "done"
    /\ Len(aug_input) = 2
    /\ aug_faults[aug_input[1].id] = "not_found"
    /\ aug_faults[aug_input[2].id] = "none"
    /\ aug_result.status = "returned"
    /\ Len(aug_result.value) = 1
    /\ aug_result.value[1].id = aug_input[2].id


(***************************************************************************)
(* universal_retry.                                                        *)
(***************************************************************************)
Failed(k) ==
    IF method_calls[k].response.FailedResourcesMap = None THEN <<>>
    ELSE Val(method_calls[k].response.FailedResourcesMap)

Throttled(k) == {a \in DOMAIN Failed(k) : Failed(k)[a] = "ThrottlingException"}

OnlyThrottles(k) == DOMAIN Failed(k) # {} /\ Throttled(k) = DOMAIN Failed(k)

RetriedAfter(k) ==
    /\ Len(method_calls) > k
    /\ method_calls[k + 1].ResourceARNList = Throttled(k)
    /\ Len(sleeps) >= k

LastReturned ==
    DOMAIN Failed(Len(method_calls)) = {}
    => retry_result = Return(method_calls[Len(method_calls)].response)

\* C28, as claimed: whenever a response's FailedResourcesMap holds only
\* ThrottlingException failures, universal_retry sleeps once and calls the
\* method again with exactly the throttled ARNs of that response; when a
\* later call reports no failures, that response is what it returns.
C28_ThrottledRetried ==
    retry_pc = "done"
    => /\ \A k \in 1..Len(method_calls) : OnlyThrottles(k) => RetriedAfter(k)
       /\ LastReturned

\* C28, amended: whenever one of the first five responses holds only
\* ThrottlingException failures, universal_retry sleeps once and calls the
\* method again with exactly the throttled ARNs of that response; when a
\* later call reports no failures, that response is what it returns.
C28_ThrottledRetriedBelowCeiling ==
    retry_pc = "done"
    => /\ \A k \in 1..Len(method_calls) :
            (OnlyThrottles(k) /\ k < max_attempts)
            => (RetriedAfter(k) /\ Len(sleeps) >= k /\ sleeps[k] = Delays[k])
       /\ Len(sleeps) = Len(method_calls) - 1
       /\ LastReturned

C28_Witness ==
    /\ retry_pc = "done"
    /\ Len(method_calls) = 2
    /\ method_calls[1].ResourceARNList = {1, 2}
    /\ Throttled(1) = {1}
    /\ method_calls[2].ResourceARNList = {1}
    /\ retry_result = Return(method_calls[2].response)
    /\ Len(sleeps) = 1

HasError(k) == \E a \in DOMAIN Failed(k) : Failed(k)[a] # "ThrottlingException"

\* C29: as soon as a response's FailedResourcesMap holds an item whose
\* error code is not ThrottlingException, universal_retry raises, without
\* sleeping and without a further method call, at whatever attempt.
C29_ErrorRaisesAtOnce ==
    \A k \in 1..Len(method_calls) :
        HasError(k)
        => /\ k = Len(method_calls)
           /\ retry_pc = "done"
           /\ retry_result.status = "raised"
           /\ retry_result.exc.message = "Resource Tag Errors"
           /\ Len(sleeps) = k - 1

C29_Witness ==
    /\ Len(method_calls) = 3
    /\ HasError(3)
    /\ Throttled(3) # {}
    /\ Len(sleeps) = 2
    /\ retry_pc = "done"
    /\ retry_result.status = "raised"

\* C30: universal_retry makes at most 6 method calls whatever the provider
\* answers; if the 6th response still reports throttled items it raises an
\* error naming exactly the ARNs throttled in that response, without
\* sleeping again; it never returns a response whose FailedResourcesMap is
\* not empty.
C30_AttemptCeiling ==
    /\ Len(method_calls) <= 6
    /\ (Len(method_calls) = 6 /\ OnlyThrottles(6))
       => /\ retry_pc = "done"
          /\ retry_result.status = "raised"
          /\ retry_result.exc.message = "Resource Tag Throttled"
          /\ retry_result.exc.arns = Throttled(6)
          /\ Len(sleeps) = 5
    /\ retry_result.status = "returned"
       => \/ retry_result.value.FailedResourcesMap = None
          \/ DOMAIN Val(retry_result.value.FailedResourcesMap) = {}

C30_Witness ==
    /\ Len(method_calls) = 6
    /\ OnlyThrottles(6)
    /\ Throttled(6) = {2}
    /\ method_calls[6].ResourceARNList = {1}
    /\ retry_result = Raise(TagThrottled({2}))
    /\ Len(sleeps) = 5


\* C31: the error universal_retry raises for a response with at least one
\* failure that is no throttle names every ARN of that response's
\* FailedResourcesMap, the throttled ones included.
C31_AllFailingNamed ==
    \A k \in 1..Len(method_calls) :
        (HasError(k) /\ retry_pc = "done" /\ retry_result.status = "raised")
        => DOMAIN retry_result.exc.errors = DOMAIN Failed(k)

(***************************************************************************)
(* Pooled actions.                                                         *)
(***************************************************************************)
TaskRaised == {k \in 1..Len(futures) : futures[k].outcome.status = "raised"}

\* C32: a bulk tagging failure is never swallowed: when universal_retry
\* raises inside a per-chunk task of a universal tagging action, process()
\* surfaces an error to its caller.
C32_TagFailureSurfaces ==
    (pool_op = "tag" /\ pool_pc = "done" /\ TaskRaised # {})
    => pool_result.status = "raised"

DeleteAnswered(k) ==
    {futures[k].chunk[j] : j \in {i \in 1..(futures[k].at - 1) :
                                     delete_faults[futures[k].chunk[i]] = "none"}}

\* C33: RDSClusterSnapshotDelete.process raises if any submitted chunk task
\* failed, and only once every submitted task has completed and been
\* observed; a failing task stops no sibling, deletions performed stay
\* performed, and with no failure the input snapshots are returned.
C33_RaiseAfterAll ==
    pool_op = "snapshot_delete"
    => /\ \A k \in 1..Len(futures) : DeleteAnswered(k) \subseteq deleted
       /\ pool_result.status # "running"
          => /\ Len(futures) = (Len(pool_input) + 49) \div 50
             /\ \A k \in 1..Len(futures) :
                   /\ futures[k].state = "done"
                   /\ k \in observed
                   /\ k \notin TaskRaised => futures[k].at = Len(futures[k].chunk) + 1
             /\ TaskRaised # {} <=> pool_result.status = "raised"
             /\ TaskRaised = {} => pool_result = Return(Some(pool_input))

C33_Witness ==
    /\ pool_op = "snapshot_delete"
    /\ pool_pc = "done"
    /\ Len(futures) = 2
    /\ TaskRaised = {1}
    /\ futures[1].at = 1
    /\ deleted = {1}
    /\ pool_result = Raise(ClientError)

OnlySentFail == \A k \in 1..Len(method_calls) : DOMAIN Failed(k) \subseteq method_calls[k].ResourceARNList

\* C34: universal_retry sleeps only between two calls, so that on
\* termination the sleeps number the method calls less one; and, if the
\* provider reports failures only for ARNs it was sent, each call's
\* ResourceARNList is a subset of the call before's and no retry sends an
\* empty list.
C34_SleepsAndShrinkingList ==
    /\ Len(sleeps) \in {Len(method_calls) - 1, Len(method_calls)}
    /\ Len(method_calls) >= 1 => Len(sleeps) <= Len(method_calls)
    /\ retry_pc = "done" => Len(sleeps) = Len(method_calls) - 1
    /\ OnlySentFail
       => \A k \in 2..Len(method_calls) :
             /\ method_calls[k].ResourceARNList \subseteq method_calls[k - 1].ResourceARNList
             /\ method_calls[k].ResourceARNList # {}

C34_Witness ==
    /\ retry_pc = "done"
    /\ OnlySentFail
    /\ Len(method_calls) = 3
    /\ Len(sleeps) = 2
    /\ method_calls[2].ResourceARNList = {1, 2}
    /\ method_calls[3].ResourceARNList = {2}

\* C35: resources() saves a freshly fetched population under the key it
\* looked up at the start of the call, although an absent query is replaced
\* by an empty mapping before enumeration; so after resources() with no
\* query the entry of the no-query key exists, and a following
\* get_resources(ids) with caching enabled is served from it without a
\* provider call.
C35_SavedUnderLookedUpKey ==
    /\ \A k \in DOMAIN cache : k = cache[k].writer
    /\ \A c \in Procs :
          /\ (called[c].q = None /\ Reached(c, "cache.save")) => called[c] \in DOMAIN cache
          /\ (/\ pc[c] = "got"
              /\ get_args[c].cache
              /\ cache_enabled
              /\ called[c] \in DOMAIN cache)
             => /\ provider_calls[c] = 0
                /\ served[c] = Some(called[c])
                /\ result[c] = Return(SelectSeq(cache[called[c]].value,
                                                LAMBDA r : r.id \in get_args[c].ids))

C35_Witness ==
    /\ pc[1] = "got"
    /\ cache_enabled
    /\ Len(saves) = 1
    /\ served[1] # None
    /\ Val(served[1]).q = None
    /\ provider_calls[1] = 0
    /\ result[1].status = "returned"
    /\ Len(result[1].value) = 1

FoundNothing(call) == \A i \in 1..Len(call.answer) : call.answer[i] = None

\* C36: in the fan-out a parent whose enumeration finds nothing under the
\* result path contributes no record and does not make the query fail,
\* with or without parent annotation; the children of the other parents
\* are returned.
C36_EmptyParentSkipped ==
    (FanOut /\ \E i \in 1..Len(enum_calls) : FoundNothing(enum_calls[i]))
    => /\ rq_result.status = "returned"
       /\ Len(enum_calls) = Len(parent_ids)
       /\ Len(Val(rq_result.value)) = Len(AllEnumerated(enum_calls))
       /\ \A j \in 1..Len(Val(rq_result.value)) :
             ResultRecord(Val(rq_result.value)[j]).id = AllEnumerated(enum_calls)[j].id

(***************************************************************************)
(* RenameTag.process_rename.                                               *)
(***************************************************************************)
CallsOn(op, i) == {k \in 1..Len(tag_calls) : tag_calls[k].op = op /\ i \in tag_calls[k].ids}

LocalCount(i) ==
    resource_set[i].Tags.others + (IF resource_set[i].Tags.old THEN 1 ELSE 0)
        + (IF resource_set[i].Tags.new THEN 1 ELSE 0)

HeldCount(i) ==
    held[i].others + (IF held[i].old THEN 1 ELSE 0) + (IF held[i].new THEN 1 ELSE 0)

Carrying(seq) == SelectSeq(seq, LAMBDA r : r.tag # None)

\* C38: filter_resources returns exactly the input resources that carry
\* the configured key, for every input list, and create_set never meets a
\* resource without the key.
C38_FilterExact ==
    filter_pc \in {"create_set", "done"} =>
        /\ tag_resources = Carrying(filter_input)
        /\ filter_error = None

\* where an element lacking the key is never directly followed by another
\* one lacking it, the result is exact
C38_ExactWithoutNeighbours ==
    (/\ filter_pc \in {"create_set", "done"}
     /\ \A k \in 1..(Len(filter_input) - 1) :
           filter_input[k].tag # None \/ filter_input[k + 1].tag # None)
        => /\ tag_resources = Carrying(filter_input)
           /\ filter_error = None

(***************************************************************************)
(* MailerAzureQueueProcessor.run.                                          *)
(***************************************************************************)
DeletedIffHandledOrOverRetry ==
    /\ \A d \in decisions : d.deleted <=> (d.handled \/ d.dequeue_count > 3)
    /\ \A i \in DOMAIN queue :
          /\ ~queue[i].present <=> \E d \in decisions : d.id = i /\ d.deleted
          /\ queue[i].dequeue_count <= 4
    /\ mail_pc = "done" => queue_messages = <<>>

Resendable(rsp) ==
    /\ rsp.status_code \in {413, 429, 503}
    /\ rsp.retry_after # None
    /\ \A s \in rsp.retry_after : s < 30

ResendRule ==
    /\ Len(send_received) <= 3
    /\ \A k \in 1..Len(send_received) :
          k < Len(send_received) =>
              /\ Resendable(send_received[k])
              /\ Len(send_sleeps) >= k
              /\ send_sleeps[k] \in send_received[k].retry_after
    /\ send_pc = "done" =>
          /\ send_received # <<>>
          /\ send_result = Return(send_received[Len(send_received)])
          /\ Len(send_received) < 3 => ~Resendable(send_received[Len(send_received)])

\* C40: the override sends at most 3 times and always returns the last
\* response received; it sends again only after a 413, 429 or 503 with a
\* Retry-After below 30, having slept that long; for any other response
\* it stops and returns that response without raising.
C40_BoundedResend == ResendRule

\* the same, for calls in which every retriable response carries
\* Retry-After
C40_BoundedResendWithHeader ==
    (\A k \in 1..Len(send_received) :
        send_received[k].status_code \in {413, 429, 503} => send_received[k].retry_after # None)
        => ResendRule

====
